---- MODULE Spec2Model ----
(***************************************************************************)
(* A model of the HostAgent orchestrator of agents/orchestrate/host_agent.py*)
(* (the agent registry, the per-session state kept in the ADK session      *)
(* state dict, before_model_callback, send_task and the part conversion),  *)
(* of the web application of web/app.py (its database helpers, the routes  *)
(* POST /api/posts and POST /api/events and the pages of a person and of   *)
(* an event), of the planning facade of web/introvertally.py (the proxy of *)
(* the local orchestrator and the two generators that read its stream) and *)
(* of the planning API of introvert-ally-api/main.py (api_handler, its two *)
(* handlers and the generators they drive).                                *)
(*                                                                         *)
(* Python values are modelled as follows.                                  *)
(*   - A dict is a function whose DOMAIN is the set of keys present; the   *)
(*     empty dict is <<>>.                                                 *)
(*   - None is the record None.                                            *)
(*   - str(uuid.uuid4()) is a fresh number taken from the counter nextUuid.*)
(*   - An f-string is the record [t |-> <its fixed text>, v |-> <the value *)
(*     formatted into it>]; the strings and data values that convert_part  *)
(*     returns are records of the same shape, so that a result list can    *)
(*     hold both.                                                          *)
(*   - An exception leaving a function is a result record with             *)
(*     kind = "raise".                                                     *)
(*   - A JSON value is a record tagged by its type in the field json.      *)
(*   - The database is the set of its committed rows (tables) and the set  *)
(*     of the rows written in the open transaction of the connection       *)
(*     (uncommitted).                                                      *)
(***************************************************************************)
EXTENDS Naturals, Sequences, FiniteSets, TLC

\* Bounds of the model.
MaxUuid == 4        \* uuids that can be drawn in one run
MaxParts == 2       \* parts in one task response (status message and artifacts together)
MaxAddresses == 3   \* addresses in the list given to HostAgent.__init__
MaxStreamEvents == 2 \* events that one agent stream delivers
MaxIds == 2         \* uuids that the web application draws in one run
MaxAttendees == 2   \* attendee names in the body of one POST /api/events
MaxLocations == 1   \* locations in the body of one POST /api/events

None == [py |-> "None"]

\* A string: the f-string template t with v formatted into it, or the value v
\* itself when t names what it is (a part's text, a part's data, the lines of a
\* text).
Str(t, v) == [t |-> t, v |-> v]

-----------------------------------------------------------------------------
\* The world outside the orchestrator.

\* Conversation sessions of the hosting framework; each has its own state dict.
Sessions == {"s1", "s2"}

\* The addresses configured for the orchestrator, in list order, and the card
\* each serves when it can be reached.
RemoteAgentAddresses == <<"http://planner", "http://social">>

\* "http://mirror" is a second deployment of the planner: its card has the
\* planner's name, and its own description and url.
CardAt(address) ==
    IF address = "http://planner"
    THEN [name |-> "Planner Agent", description |-> "plans", url |-> address]
    ELSE IF address = "http://mirror"
    THEN [name |-> "Planner Agent", description |-> "plans (mirror)", url |-> address]
    ELSE [name |-> "Social Agent", description |-> "profiles", url |-> address]

\* The addresses a list given to HostAgent.__init__ may hold.
Addresses == {"http://planner", "http://social", "http://mirror"}

\* Agent names the LLM may pass to send_task; "Ghost Agent" is served by no address.
AgentNames == {"Planner Agent", "Social Agent", "Ghost Agent"}

\* common.types.TaskState
SUBMITTED == "submitted"
WORKING == "working"
INPUT_REQUIRED == "input-required"
COMPLETED == "completed"
CANCELED == "canceled"
FAILED == "failed"
UNKNOWN == "unknown"
TaskStates == {SUBMITTED, WORKING, INPUT_REQUIRED, COMPLETED, CANCELED, FAILED, UNKNOWN}

\* A file part without content: its bytes are None or empty, falsy either way.
NoBytes == ""

\* Parts a remote agent may put in a status message or an artifact.  "aGk=" is
\* valid base64, "aGk" is not (incorrect padding, b64decode raises); "video" is a
\* part type the orchestrator does not know.
TextPart(text) == [type |-> "text", text |-> text]
DataPart(data) == [type |-> "data", data |-> data]
FilePart(name, bytes) ==
    [type |-> "file", file |-> [name |-> name, mimeType |-> "image/png", bytes |-> bytes]]
OtherPart(type) == [type |-> type]

Parts ==
    {TextPart("Done"), TextPart("More"), DataPart("d1"),
     FilePart("f1", "aGk="), FilePart("f1", "aGk"), FilePart("f1", NoBytes),
     OtherPart("video")}

RECURSIVE SeqsUpTo(_, _)
SeqsUpTo(S, n) ==
    IF n = 0 THEN {<<>>}
    ELSE LET shorter == SeqsUpTo(S, n - 1)
         IN  shorter \cup {Append(q, x) : q \in {r \in shorter : Len(r) = n - 1}, x \in S}

PartLists(n) == SeqsUpTo(Parts, n)

\* The parts ps as artifacts: a new artifact begins after every position of cuts.
RECURSIVE Artifacts(_, _)
Artifacts(ps, cuts) ==
    IF ps = <<>> THEN <<>>
    ELSE LET c == CHOOSE x \in cuts \cup {Len(ps)} : \A y \in cuts : x <= y
         IN  <<[parts |-> SubSeq(ps, 1, c)]>>
             \o Artifacts(SubSeq(ps, c + 1, Len(ps)), {x - c : x \in cuts \ {c}})

\* The artifact lists that hold the parts ps in order; every artifact holds a part.
ArtifactLists(ps) == {Artifacts(ps, cuts) : cuts \in SUBSET (1 .. Len(ps) - 1)}

\* What client.send_task may return, the task id apart, when the parts it
\* carries are ps in this order: no task (it carries no part), a task without a
\* status, or a task with a status.  The first m parts make the status message,
\* when there is one, the others the artifacts.
RepliesOf(ps) ==
    (IF ps = <<>> THEN {None} ELSE {})
    \cup {[status |-> None, artifacts |-> arts] : arts \in ArtifactLists(ps)}
    \cup {[status |-> [state |-> st, message |-> None], artifacts |-> arts] :
            st \in TaskStates, arts \in ArtifactLists(ps)}
    \cup UNION {{[status |-> [state |-> st,
                             message |-> [role |-> "agent", parts |-> SubSeq(ps, 1, m)]],
                  artifacts |-> arts] :
                   st \in TaskStates, arts \in ArtifactLists(SubSeq(ps, m + 1, Len(ps)))} :
                m \in 0 .. Len(ps)}

\* The part lists of the replies without parts.
NoPartLists == PartLists(0)

\* The task a reply makes for the request with task id `id': remote agents answer
\* with the id of the request.
TaskOf(reply, id) ==
    IF reply = None THEN None
    ELSE [id |-> id, status |-> reply.status, artifacts |-> reply.artifacts]

-----------------------------------------------------------------------------
VARIABLES
    addresses,                  \* remote_agent_addresses, the list given to __init__
    tried,                      \* the card fetches __init__ made so far, in order
    phase,                      \* "resolving" (in the loop of __init__), "serving", "failed"
    cards,                      \* self.cards: agent name -> AgentCard
    remote_agent_connections,   \* self.remote_agent_connections: agent name -> connection
    key_order,                  \* the keys of the two dicts in insertion order
    agents,                     \* self.agents, the agent list of the system prompt
    listed,                     \* what the last call of list_remote_agents returned, and
                                \* who called it: the model ("tool") or register_agent_card
    state,                      \* session -> the session state dict
    nextUuid,                   \* the next uuid uuid.uuid4() returns
    pc,                         \* session -> "new" (no model call yet), "ready",
                                \*            "awaiting" (send_task suspended at its await)
    pending,                    \* session -> the request in flight to a remote agent, or None
    prev,                       \* session -> the last request sent and the state answered to it
    calls,                      \* coroutine -> the request of a send_task call that runs
                                \*   concurrently with others on one session, or None
    last,                       \* the send_task call that ended last and its outcome
    conn,                       \* web/app.py: the module-level connection: "none", "open"
                                \*   or "closed"
    uncommitted,                \* the rows written in the open transaction of conn
    tables,                     \* the committed rows of the database
    agent_engine,               \* introvert-ally-api/main.py: the agent engine, "none" when
                                \*   its initialization failed
    answer,                     \* the last HTTP request and the response to it
    inserting,                  \* web/app.py: the call of add_full_event_with_details_db
                                \*   that runs while other requests use conn
    local_agent_proxy,          \* web/introvertally.py: the module-level proxy instance
    created,                    \* the sessions created on the orchestrator: (user, id)
    generated                   \* the last run of a generator of the facade

\* The registry and its construction, and the conversations.
registryVars ==
    <<addresses, tried, phase, cards, remote_agent_connections, key_order, agents, listed>>
sessionVars == <<state, nextUuid, pc, pending, prev, calls, last>>

httpVars == <<conn, uncommitted, tables, agent_engine, answer>>

webVars == <<inserting, local_agent_proxy, created, generated>>

vars == <<registryVars, sessionVars, httpVars, webVars>>

-----------------------------------------------------------------------------
\* The agent registry.

\* RemoteAgentConnections(card): the connection object built from a card.
RemoteAgentConnections(card) == [card |-> card]

\* The two dicts of the registry; names holds their keys in insertion order (a
\* dict iterates in that order, and an assignment to a key it holds keeps the
\* key's place).
EmptyRegistry == [connections |-> <<>>, cards |-> <<>>, names |-> <<>>]

\* Register with the connection of a name kept when the name is already known.
Register_KeepsConnection(registry, card) ==
    [connections |->
         IF card.name \in DOMAIN registry.connections THEN registry.connections
         ELSE (card.name :> RemoteAgentConnections(card)) @@ registry.connections,
     cards |-> (card.name :> card) @@ registry.cards,
     names |-> IF card.name \in DOMAIN registry.cards THEN registry.names
               ELSE Append(registry.names, card.name)]

\* The connection built from the card and the card are stored under card.name:
\* lines 56-58 of __init__ and 75-77 of register_agent_card.
Register(registry, card) ==
    [connections |-> (card.name :> RemoteAgentConnections(card)) @@ registry.connections,
     cards |-> (card.name :> card) @@ registry.cards,
     names |-> IF card.name \in DOMAIN registry.cards THEN registry.names
               ELSE Append(registry.names, card.name)]

\* TryAddress without the except clause: a failed fetch leaves __init__.
TryAddress_NoExcept(registry, address, fetched) ==
    IF fetched
    THEN [raised |-> FALSE, registry |-> Register(registry, CardAt(address))]
    ELSE [raised |-> TRUE, registry |-> registry]

\* One turn of the loop of HostAgent.__init__: the card of the address is
\* fetched and registered; when the fetch (or the construction of the
\* connection) raises, the except clause prints a warning and the loop goes on.
TryAddress(registry, address, fetched) ==
    IF fetched
    THEN [raised |-> FALSE, registry |-> Register(registry, CardAt(address))]
    ELSE [raised |-> FALSE, registry |-> registry]

\* The loop of HostAgent.__init__ over the configured addresses: a card that can
\* be fetched is stored with its connection under card.name, an address whose
\* fetch fails is skipped.
RECURSIVE ResolveCards(_, _, _)
ResolveCards(addrs, reachable, registry) ==
    IF addrs = <<>> THEN registry
    ELSE ResolveCards(Tail(addrs), reachable,
                      TryAddress(registry, Head(addrs), Head(addrs) \in reachable).registry)

\* json.dumps({"name": ..., "description": ...}) and the dict itself.
AgentInfo(card) == [name |-> card.name, description |-> card.description]

\* The end of __init__: self.agents is one line for every card, in the order of
\* self.cards, or the text that tells that there is none.
AgentsAfterInit(registry) ==
    IF registry.names = <<>> THEN Str("No remote agents currently available.", <<>>)
    ELSE Str("lines", [i \in DOMAIN registry.names |-> AgentInfo(registry.cards[registry.names[i]])])

\* ListRemoteAgents with the cards counted by the connections made for them.
ListRemoteAgents_Truthy(registry) ==
    IF Cardinality(DOMAIN registry.connections) <= 1
    THEN [returned |-> <<>>, registry |-> registry]
    ELSE [returned |-> [i \in DOMAIN registry.names |->
                           AgentInfo(registry.cards[registry.names[i]])],
          registry |-> registry]

\* list_remote_agents: the empty list when there is no connection, else the
\* name and description of every card in the order of self.cards; and the
\* registry it leaves.
ListRemoteAgents(registry) ==
    IF DOMAIN registry.connections = {}
    THEN [returned |-> <<>>, registry |-> registry]
    ELSE [returned |-> [i \in DOMAIN registry.names |->
                           AgentInfo(registry.cards[registry.names[i]])],
          registry |-> registry]

\* RegisterAgentCard with the registry started afresh from the card.
RegisterAgentCard_Resets(registry, card) ==
    LET registered == Register(EmptyRegistry, card)
        info == ListRemoteAgents(registered)
    IN  [registry |-> info.registry, listed |-> info.returned,
         agents |-> Str("lines", info.returned)]

\* register_agent_card: the card is registered, then self.agents is rebuilt from
\* list_remote_agents.
RegisterAgentCard(registry, card) ==
    LET registered == Register(registry, card)
        info == ListRemoteAgents(registered)
    IN  [registry |-> info.registry, listed |-> info.returned,
         agents |-> Str("lines", info.returned)]

-----------------------------------------------------------------------------
\* The session state.

\* BeforeModelCallback with a new session_id for every session it activates.
BeforeModelCallback_NewSessionId(st, uuid) ==
    IF "session_active" \notin DOMAIN st \/ ~st["session_active"]
    THEN [state |-> ("session_active" :> TRUE) @@ ("session_id" :> uuid) @@ st, drawn |-> 1]
    ELSE [state |-> st, drawn |-> 0]

\* before_model_callback on the state dict st; uuid is what uuid.uuid4() returns
\* if it is called.  drawn tells whether it was.
BeforeModelCallback(st, uuid) ==
    IF "session_active" \notin DOMAIN st \/ ~st["session_active"]
    THEN LET fresh == "session_id" \notin DOMAIN st
             st1 == IF fresh THEN ("session_id" :> uuid) @@ st ELSE st
         IN  [state |-> ("session_active" :> TRUE) @@ st1, drawn |-> IF fresh THEN 1 ELSE 0]
    ELSE [state |-> st, drawn |-> 0]

\* AgentNotFound with the active agent tracked before the name is checked.
AgentNotFound_TracksAgent(st, agent_name) ==
    [kind |-> "raise",
     error |-> [type |-> "ValueError", what |-> "not found", agent |-> agent_name],
     state |-> ("agent" :> agent_name) @@ st, request |-> None, drawn |-> 0]

\* send_task with a name that has no connection: ValueError, before anything
\* is read or written.
AgentNotFound(st, agent_name) ==
    [kind |-> "raise",
     error |-> [type |-> "ValueError", what |-> "not found", agent |-> agent_name],
     state |-> st, request |-> None, drawn |-> 0]

\* BuildRequest with the session marked active when the task is dispatched.
BuildRequest_Activates(st, agent_name, uuid) ==
    LET st1 == ("session_active" :> TRUE) @@ ("agent" :> agent_name) @@ st
        hasTask == "task_id" \in DOMAIN st1
        hasSession == "session_id" \in DOMAIN st1
        taskId == IF hasTask THEN st1["task_id"] ELSE uuid
        sessionId == IF hasSession THEN st1["session_id"]
                     ELSE IF hasTask THEN uuid ELSE uuid + 1
    IN  [kind |-> "send", error |-> None, state |-> st1,
         request |-> [agent_name |-> agent_name, id |-> taskId, sessionId |-> sessionId],
         drawn |-> (IF hasTask THEN 0 ELSE 1) + (IF hasSession THEN 0 ELSE 1)]

\* BuildRequest with a new task id for every request.
BuildRequest_FreshTaskId(st, agent_name, uuid) ==
    LET st1 == ("agent" :> agent_name) @@ st
        hasSession == "session_id" \in DOMAIN st1
    IN  [kind |-> "send", error |-> None, state |-> st1,
         request |-> [agent_name |-> agent_name, id |-> uuid,
                      sessionId |-> IF hasSession THEN st1["session_id"] ELSE uuid + 1],
         drawn |-> 1 + (IF hasSession THEN 0 ELSE 1)]

\* BuildRequest with the active agent set only when the session has none.
BuildRequest_KeepsAgent(st, agent_name, uuid) ==
    LET st1 == IF "agent" \in DOMAIN st THEN st ELSE ("agent" :> agent_name) @@ st
        hasTask == "task_id" \in DOMAIN st1
        hasSession == "session_id" \in DOMAIN st1
        taskId == IF hasTask THEN st1["task_id"] ELSE uuid
        sessionId == IF hasSession THEN st1["session_id"]
                     ELSE IF hasTask THEN uuid ELSE uuid + 1
    IN  [kind |-> "send", error |-> None, state |-> st1,
         request |-> [agent_name |-> agent_name, id |-> taskId, sessionId |-> sessionId],
         drawn |-> (IF hasTask THEN 0 ELSE 1) + (IF hasSession THEN 0 ELSE 1)]

\* send_task from the tracking of the active agent to the request it builds from
\* the session state.  A uuid that state.get() computes as a default and does
\* not use is not drawn from the counter, nor is the message id, which nothing
\* reads.  The connection objects are truthy, so the "if not client" branch is
\* never taken.
BuildRequest(st, agent_name, uuid) ==
    LET st1 == ("agent" :> agent_name) @@ st
        hasTask == "task_id" \in DOMAIN st1
        hasSession == "session_id" \in DOMAIN st1
        taskId == IF hasTask THEN st1["task_id"] ELSE uuid
        sessionId == IF hasSession THEN st1["session_id"]
                     ELSE IF hasTask THEN uuid ELSE uuid + 1
    IN  [kind |-> "send", error |-> None, state |-> st1,
         request |-> [agent_name |-> agent_name, id |-> taskId, sessionId |-> sessionId],
         drawn |-> (IF hasTask THEN 0 ELSE 1) + (IF hasSession THEN 0 ELSE 1)]

\* send_task up to its await.
SendTaskBegin(st, agent_name, connections, uuid) ==
    IF agent_name \notin DOMAIN connections
    THEN AgentNotFound(st, agent_name)
    ELSE BuildRequest(st, agent_name, uuid)

-----------------------------------------------------------------------------
\* The conversion of parts.

MoreInputText ==
    "The agent '{agent_name}' requires more input to proceed. Please provide further details."
InvalidTaskText ==
    "The remote agent '{agent_name}' did not return a valid task status. The task might not have been initiated successfully."
FileErrorText == "Error processing file {file_id}: Invalid data."
FileNoContentText == "File {file_id} available, but no content."
UnknownPartText == "Unknown part type: {part.type}"

\* DataPart(data = {"artifact-file-id": file_id})
ArtifactRef(file_id) == Str("artifact-file-id", file_id)

\* base64.b64decode succeeds on correctly padded input.
B64Decodes(bytes) == bytes \in {"aGk="}

\* ConvertPart without the try/except around the decoding: the error of
\* b64decode leaves convert_part.
ConvertPart_NoTry(part) ==
    IF part.type = "text"
    THEN [raised |-> FALSE, value |-> Str("text", part.text), saved |-> <<>>, flagged |-> FALSE]
    ELSE IF part.type = "data"
    THEN [raised |-> FALSE, value |-> Str("data", part.data), saved |-> <<>>, flagged |-> FALSE]
    ELSE IF part.type = "file"
    THEN LET file_id == part.file.name
         IN  IF part.file.bytes # NoBytes
             THEN IF B64Decodes(part.file.bytes)
                  THEN [raised |-> FALSE, value |-> ArtifactRef(file_id),
                        saved |-> <<file_id>>, flagged |-> TRUE]
                  ELSE [raised |-> TRUE, value |-> None, saved |-> <<>>, flagged |-> FALSE]
             ELSE [raised |-> FALSE, value |-> Str(FileNoContentText, file_id),
                   saved |-> <<>>, flagged |-> FALSE]
    ELSE [raised |-> FALSE, value |-> Str(UnknownPartText, part.type),
          saved |-> <<>>, flagged |-> FALSE]

\* ConvertPart with a file whose bytes decode returned inline, nothing saved.
ConvertPart_InlinesBytes(part) ==
    IF part.type = "text"
    THEN [raised |-> FALSE, value |-> Str("text", part.text), saved |-> <<>>, flagged |-> FALSE]
    ELSE IF part.type = "data"
    THEN [raised |-> FALSE, value |-> Str("data", part.data), saved |-> <<>>, flagged |-> FALSE]
    ELSE IF part.type = "file"
    THEN LET file_id == part.file.name
         IN  IF part.file.bytes # NoBytes
             THEN IF B64Decodes(part.file.bytes)
                  THEN [raised |-> FALSE, value |-> Str("file", part.file.bytes),
                        saved |-> <<>>, flagged |-> TRUE]
                  ELSE [raised |-> FALSE,
                        value |-> Str(FileErrorText, file_id),
                        saved |-> <<>>, flagged |-> FALSE]
             ELSE [raised |-> FALSE, value |-> Str(FileNoContentText, file_id),
                   saved |-> <<>>, flagged |-> FALSE]
    ELSE [raised |-> FALSE, value |-> Str(UnknownPartText, part.type),
          saved |-> <<>>, flagged |-> FALSE]

\* convert_part: the value returned (or the exception raised), the artifacts
\* saved through the tool context and whether the escalate and
\* skip_summarization flags were set.  The tool context's artifact store is
\* taken to accept every save.
ConvertPart(part) ==
    IF part.type = "text"
    THEN [raised |-> FALSE, value |-> Str("text", part.text), saved |-> <<>>, flagged |-> FALSE]
    ELSE IF part.type = "data"
    THEN [raised |-> FALSE, value |-> Str("data", part.data), saved |-> <<>>, flagged |-> FALSE]
    ELSE IF part.type = "file"
    THEN LET file_id == part.file.name
         IN  IF part.file.bytes # NoBytes
             THEN IF B64Decodes(part.file.bytes)
                  THEN [raised |-> FALSE, value |-> ArtifactRef(file_id),
                        saved |-> <<file_id>>, flagged |-> TRUE]
                  ELSE [raised |-> FALSE,
                        value |-> Str(FileErrorText, file_id),
                        saved |-> <<>>, flagged |-> FALSE]
             ELSE [raised |-> FALSE, value |-> Str(FileNoContentText, file_id),
                   saved |-> <<>>, flagged |-> FALSE]
    ELSE [raised |-> FALSE, value |-> Str(UnknownPartText, part.type),
          saved |-> <<>>, flagged |-> FALSE]

NoParts == [raised |-> FALSE, values |-> <<>>, saved |-> <<>>, flagged |-> FALSE, converted |-> <<>>]

\* Two conversions in sequence; the second does not run when the first raised.
Then(a, b) ==
    IF a.raised THEN a
    ELSE [raised |-> b.raised, values |-> a.values \o b.values, saved |-> a.saved \o b.saved,
          flagged |-> a.flagged \/ b.flagged, converted |-> a.converted \o b.converted]

\* convert_parts: the converted parts in order, a None result left out.
RECURSIVE ConvertParts(_)
ConvertParts(parts) ==
    IF parts = <<>> THEN NoParts
    ELSE LET c == ConvertPart(Head(parts))
             one == [raised |-> c.raised,
                     values |-> IF c.raised \/ c.value = None THEN <<>> ELSE <<c.value>>,
                     saved |-> c.saved, flagged |-> c.flagged,
                     converted |-> <<[part |-> Head(parts), raised |-> c.raised,
                                      value |-> c.value]>>]
         IN  IF c.raised THEN one ELSE Then(one, ConvertParts(Tail(parts)))

RECURSIVE ConvertArtifacts(_)
ConvertArtifacts(artifacts) ==
    IF artifacts = <<>> THEN NoParts
    ELSE Then(ConvertParts(Head(artifacts).parts), ConvertArtifacts(Tail(artifacts)))

\* FlattenTask with the artifacts converted before the status message.
FlattenTask_ArtifactsFirst(task) ==
    LET fromMessage == IF task # None /\ task.status # None /\ task.status.message # None
                       THEN ConvertParts(task.status.message.parts) ELSE NoParts
        fromArtifacts == IF task # None /\ task.artifacts # <<>>
                         THEN ConvertArtifacts(task.artifacts) ELSE NoParts
    IN  Then(fromArtifacts, fromMessage)

\* The end of send_task: the parts of the status message, then the parts of
\* every artifact.
FlattenTask(task) ==
    LET fromMessage == IF task # None /\ task.status # None /\ task.status.message # None
                       THEN ConvertParts(task.status.message.parts) ELSE NoParts
        fromArtifacts == IF task # None /\ task.artifacts # <<>>
                         THEN ConvertArtifacts(task.artifacts) ELSE NoParts
    IN  Then(fromMessage, fromArtifacts)

-----------------------------------------------------------------------------
\* send_task after its await.

\* SessionActiveAfter with UNKNOWN missing from the list.
SessionActiveAfter_WithoutUnknown(taskState) == taskState \notin {COMPLETED, CANCELED, FAILED}

\* state['session_active'] = task.status.state not in [...]
SessionActiveAfter(taskState) == taskState \notin {COMPLETED, CANCELED, FAILED, UNKNOWN}

\* FirstText without the break: the last text part wins.
FirstText_Last(message, default) ==
    IF message # None /\ message.parts # <<>>
    THEN LET texts == {i \in DOMAIN message.parts : message.parts[i].type = "text"}
         IN  IF texts = {} THEN default
             ELSE message.parts[CHOOSE i \in texts : \A j \in texts : i >= j].text
    ELSE default

\* The text of the first text part of the status message, or the default.
FirstText(message, default) ==
    IF message # None /\ message.parts # <<>>
    THEN LET texts == {i \in DOMAIN message.parts : message.parts[i].type = "text"}
         IN  IF texts = {} THEN default
             ELSE message.parts[CHOOSE i \in texts : \A j \in texts : i <= j].text
    ELSE default

HasText(message) ==
    /\ message # None
    /\ \E i \in DOMAIN message.parts : message.parts[i].type = "text"

UnknownReason == "Unknown."

\* InputRequiredResponse with the status text alone.
InputRequiredResponse_TextOnly(agent_name, message) ==
    IF HasText(message) THEN <<Str("text", FirstText(message, ""))>> ELSE <<>>

\* What the INPUT_REQUIRED branch appends: the request for more input, then the
\* first text of the status message when it has one.
InputRequiredResponse(agent_name, message) ==
    <<Str(MoreInputText, agent_name)>>
    \o (IF HasText(message) THEN <<Str("text", FirstText(message, ""))>> ELSE <<>>)

\* InvalidTaskResponse with nothing appended.
InvalidTaskResponse_Silent(agent_name) == <<>>

\* What the branch for a missing task or status appends.
InvalidTaskResponse(agent_name) ==
    <<Str(InvalidTaskText, agent_name)>>

\* KeepTaskId with the id stored only while the task goes on.
KeepTaskId_WhileRunning(st, taskState, taskId) ==
    IF taskState \in {SUBMITTED, WORKING} THEN ("task_id" :> taskId) @@ st ELSE st

\* The if/elif/else on the state: only the final else stores the task id.
KeepTaskId(st, taskState, taskId) ==
    IF taskState \in {INPUT_REQUIRED, CANCELED, FAILED} THEN st
    ELSE ("task_id" :> taskId) @@ st

\* Returned with the flags that the conversion of the parts set dropped.
Returned_FlagsByStateOnly(st, response, flags, parts) ==
    IF parts.raised
    THEN [kind |-> "raise", error |-> [type |-> "Exception", what |-> "convert_part"],
          state |-> st, response |-> <<>>,
          flagged |-> flags, saved |-> parts.saved,
          converted |-> parts.converted]
    ELSE [kind |-> "return", error |-> None, state |-> st,
          response |-> response \o parts.values,
          flagged |-> flags, saved |-> parts.saved,
          converted |-> parts.converted]

\* The end of send_task: what it returns or raises, the state it leaves, and
\* whether escalate and skip_summarization were set, by the INPUT_REQUIRED branch
\* (flags) or by the conversion of the parts.
Returned(st, response, flags, parts) ==
    IF parts.raised
    THEN [kind |-> "raise", error |-> [type |-> "Exception", what |-> "convert_part"],
          state |-> st, response |-> <<>>,
          flagged |-> flags \/ parts.flagged, saved |-> parts.saved,
          converted |-> parts.converted]
    ELSE [kind |-> "return", error |-> None, state |-> st,
          response |-> response \o parts.values,
          flagged |-> flags \/ parts.flagged, saved |-> parts.saved,
          converted |-> parts.converted]

Raised(st, what, agent_name, task, reason) ==
    [kind |-> "raise",
     error |-> [type |-> "ValueError", what |-> what, agent |-> agent_name,
                task |-> task.id, reason |-> reason],
     state |-> st, response |-> <<>>, flagged |-> FALSE, saved |-> <<>>, converted |-> <<>>]

\* send_task from the return of client.send_task on: st is the session state,
\* taskId the id the request carried, task what the remote call returned.
SendTaskEnd(st, agent_name, taskId, task) ==
    IF task # None /\ task.status # None
    THEN LET taskState == task.status.state
             st1 == ("session_active" :> SessionActiveAfter(taskState)) @@ st
             st2 == KeepTaskId(st1, taskState, taskId)
         IN  IF taskState = INPUT_REQUIRED
             THEN Returned(st2, InputRequiredResponse(agent_name, task.status.message),
                           TRUE, FlattenTask(task))
             ELSE IF taskState = CANCELED
             THEN Raised(st2, "was cancelled", agent_name, task,
                         FirstText(task.status.message, UnknownReason))
             ELSE IF taskState = FAILED
             THEN Raised(st2, "failed", agent_name, task,
                         FirstText(task.status.message, UnknownReason))
             ELSE Returned(st2, <<>>, FALSE, FlattenTask(task))
    ELSE Returned(("session_active" :> FALSE) @@ st, InvalidTaskResponse(agent_name),
                  FALSE, FlattenTask(task))

-----------------------------------------------------------------------------
\* The web application (web/app.py) and its PostgreSQL database.

\* The values of a JSON request body.
JStr(s) == [json |-> "string", s |-> s]
JNumber(n) == [json |-> "number", n |-> n]
JArray(items) == [json |-> "array", items |-> items]
JObject(fields) == [json |-> "object", fields |-> fields]
JNull == [json |-> "null"]

\* isinstance(value, str) and value.strip() is not empty.
NonEmptyStr(value) == value.json = "string" /\ value.s \notin {"", " "}

\* The Person table, which no request changes: name -> person_id.
PersonNames == {"Alice", "Bob"}
PersonIdOf(name) == IF name = "Alice" THEN "p1" ELSE "p2"

\* What the database does during one request: whether psycopg2.connect
\* succeeds, and which statements raise psycopg2.Error.  At most one does: the
\* routes end with the first helper in which a statement raises.
\* psycopg2.connect is called only when the request starts without an open
\* connection c.  One request runs at most 2 * MaxAttendees + 2 * MaxLocations
\* + 3 statements (cur.execute, cur.executemany, conn.commit).
Environments(c) ==
    [connects : IF c = "open" THEN {TRUE} ELSE BOOLEAN,
     fails : {{}} \cup {{i} : i \in 1 .. (2 * MaxAttendees + 2 * MaxLocations + 3)}]

\* The world of one request while a route runs: the module-level connection,
\* the rows written in its open transaction, the committed rows, the uuids
\* drawn, the statements run, the messages flashed and the calls of the
\* database helpers with their outcomes.
WorldOf(c, u, t, uuid, env) ==
    [conn |-> c, uncommitted |-> u, tables |-> t, uuid |-> uuid, step |-> 0,
     connects |-> env.connects, fails |-> env.fails, flashes |-> <<>>, trace |-> <<>>]

Flash(w, message) == [w EXCEPT !.flashes = Append(@, message)]

\* The next statement raises psycopg2.Error.
Fails(w) == (w.step + 1) \in w.fails
Stepped(w) == [w EXCEPT !.step = @ + 1]

Commit(w) == [w EXCEPT !.tables = @ \cup w.uncommitted, !.uncommitted = {}]
\* Rollback that leaves the rows of the transaction pending.
Rollback_KeepsRows(w) == w
Rollback(w) == [w EXCEPT !.uncommitted = {}]

NoConnection(w) == w.conn \in {"none", "closed"}

\* get_db_connection, called when conn is None or closed (all its callers
\* test that first): psycopg2.connect sets the global on success; on failure
\* None is returned and the global is left as it was.
GetDbConnection(w) ==
    IF w.connects
    THEN [w |-> [w EXCEPT !.conn = "open", !.uncommitted = {}], returned |-> "open"]
    ELSE [w |-> w, returned |-> "none"]

\* "conn = get_db_connection()" where conn is None or closed.
Reconnect(w) ==
    LET c == GetDbConnection(w)
    IN  [c.w EXCEPT !.conn = c.returned]

\* The result of a SELECT on the committed rows and the rows of the open
\* transaction.
Select(w, query) ==
    IF query.sql = "person_by_name"
    THEN IF query.name \in PersonNames
         THEN <<[person_id |-> PersonIdOf(query.name)]>> ELSE <<>>
    ELSE IF query.sql = "person"
    THEN IF query.person_id \in {PersonIdOf(n) : n \in PersonNames}
         THEN <<[person_id |-> query.person_id]>> ELSE <<>>
    ELSE IF query.sql = "event"
    THEN IF \E row \in w.tables \cup w.uncommitted :
                row.table = "Event" /\ row.event_id = query.event_id
         THEN <<[event_id |-> query.event_id]>> ELSE <<>>
    ELSE <<>>

\* An entry of the trace: a database helper was called; failed tells whether a
\* statement raised in it, raised what left it, pending whether rows of its
\* transaction were neither committed nor rolled back when it ended.
Called(w, helper, failed, raised) ==
    [w EXCEPT !.trace = Append(@, [helper |-> helper, failed |-> failed, raised |-> raised,
                                   pending |-> w.uncommitted # {}])]

\* run_query: [] with a flash when there is no connection or a statement
\* raises (after a rollback), else the rows, committed.
RunQuery(w0, query) ==
    LET w == IF NoConnection(w0) THEN Reconnect(w0) ELSE w0
    IN  IF w.conn = "none"
        THEN [w |-> Called(Flash(w, "Database connection not available."),
                           "run_query", FALSE, "nothing"),
              rows |-> <<>>]
        ELSE IF Fails(w)
        THEN [w |-> Called(Flash(Rollback(Stepped(w)), "Database error"),
                           "run_query", TRUE, "nothing"),
              rows |-> <<>>]
        ELSE IF Fails(Stepped(w))
        THEN [w |-> Called(Flash(Rollback(Stepped(Stepped(w))), "Database error"),
                           "run_query", TRUE, "nothing"),
              rows |-> <<>>]
        ELSE [w |-> Called(Commit(Stepped(Stepped(w))), "run_query", FALSE, "nothing"),
              rows |-> Select(w, query)]

\* get_person_by_name_db: ConnectionError when there is no connection, else
\* the person_id of the first row of run_query, or None.
GetPersonByNameDb(w0, name) ==
    LET w == IF NoConnection(w0) THEN Reconnect(w0) ELSE w0
    IN  IF w.conn = "none"
        THEN [w |-> w, raised |-> "ConnectionError",
              value |-> [found |-> FALSE, person_id |-> ""]]
        ELSE LET r == RunQuery(w, [sql |-> "person_by_name", name |-> name])
             IN  [w |-> r.w, raised |-> "nothing",
                  value |-> IF r.rows # <<>>
                            THEN [found |-> TRUE, person_id |-> r.rows[1].person_id]
                            ELSE [found |-> FALSE, person_id |-> ""]]

\* The statements of an insert helper in order, each given by the rows it
\* inserts, and then the commit; the first that raises ends them.
RECURSIVE InsertAll(_, _)
InsertAll(w, statements) ==
    IF statements = <<>>
    THEN IF Fails(w) THEN [w |-> Stepped(w), failed |-> TRUE]
         ELSE [w |-> Commit(Stepped(w)), failed |-> FALSE]
    ELSE IF Fails(w) THEN [w |-> Stepped(w), failed |-> TRUE]
    ELSE InsertAll([Stepped(w) EXCEPT !.uncommitted = @ \cup Head(statements)],
                   Tail(statements))

\* The try/except of add_post_db and add_full_event_with_details_db: True
\* after the commit, False after a rollback when a statement raised.
InsertOrRollback(w0, helper, statements) ==
    LET w == IF NoConnection(w0) THEN Reconnect(w0) ELSE w0
    IN  IF w.conn = "none"
        THEN [w |-> Called(w, helper, FALSE, "ConnectionError"),
              raised |-> "ConnectionError", success |-> FALSE]
        ELSE LET r == InsertAll(w, statements)
             IN  IF r.failed
                 THEN [w |-> Called(Rollback(r.w), helper, TRUE, "nothing"),
                       raised |-> "nothing", success |-> FALSE]
                 ELSE [w |-> Called(r.w, helper, FALSE, "nothing"),
                       raised |-> "nothing", success |-> TRUE]

AddPostDb(w, post_id, author_id, text, sentiment) ==
    InsertOrRollback(w, "add_post_db",
        <<{[table |-> "Post", post_id |-> post_id, author_id |-> author_id,
            text |-> text, sentiment |-> sentiment]}>>)

\* add_full_event_with_details_db: the event, then each location and its link
\* to the event, then the attendances in one executemany, then the commit, in
\* one transaction.  A location id is drawn for every location whose insert is
\* tried.
AddFullEventWithDetailsDb(w, event_id, event_name, event_date, locations, attendee_ids) ==
    LET location_id(i) == w.uuid + i - 1
        ofLocation(i) ==
            <<{[table |-> "Location", location_id |-> location_id(i),
                name |-> locations[i].fields["name"]]},
              {[table |-> "EventLocation", event_id |-> event_id,
                location_id |-> location_id(i)]}>>
        RECURSIVE ofLocations(_)
        ofLocations(i) ==
            IF i > Len(locations) THEN <<>> ELSE ofLocation(i) \o ofLocations(i + 1)
        statements ==
            <<{[table |-> "Event", event_id |-> event_id, name |-> event_name,
                event_date |-> event_date]}>>
            \o ofLocations(1)
            \o (IF attendee_ids = <<>> THEN <<>>
                ELSE <<{[table |-> "Attendance", event_id |-> event_id,
                         person_id |-> attendee_ids[i]] : i \in DOMAIN attendee_ids}>>)
        r == InsertOrRollback(w, "add_full_event_with_details_db", statements)
        ran == r.w.step - w.step
        drawn == IF ran \div 2 < Len(locations) THEN ran \div 2 ELSE Len(locations)
    IN  [r EXCEPT !.w.uuid = @ + drawn]

\* A request body: not JSON at all, or a JSON value.
NotJson == [kind |-> "not json"]
Json(value) == [kind |-> "json", value |-> value]

\* bool(value) of a parsed JSON value.
Truthy(value) ==
    IF value.json = "null" THEN FALSE
    ELSE IF value.json = "boolean" THEN value.b
    ELSE IF value.json = "number" THEN value.n # 0
    ELSE IF value.json = "string" THEN value.s # ""
    ELSE IF value.json = "array" THEN Len(value.items) > 0
    ELSE DOMAIN value.fields # {}

\* What request.get_json() does with a body that is not JSON depends on the
\* version of the framework: it returns None, or it aborts the request with
\* 400 or with 415 (policies "None", "BadRequest", "UnsupportedMediaType").

\* A get_json that aborts with 422 when the body is not JSON.
GetJson_Unprocessable(body, policy) ==
    IF body.kind = "json" THEN [aborted |-> 0, value |-> body.value]
    ELSE [aborted |-> 422, value |-> JNull]

GetJson(body, policy) ==
    IF body.kind = "json" THEN [aborted |-> 0, value |-> body.value]
    ELSE IF policy = "None" THEN [aborted |-> 0, value |-> JNull]
    ELSE [aborted |-> IF policy = "BadRequest" THEN 400 ELSE 415, value |-> JNull]

\* What a route answers, and the world it leaves.
Response(w, status, body) == [w |-> w, status |-> status, body |-> body]
Error(message) == [error |-> message]

\* The first lines of every route: "if conn is None or conn.closed:
\* get_db_connection()", whose result is dropped.
RouteConnects(w) == IF NoConnection(w) THEN GetDbConnection(w).w ELSE w

\* What a page route answers: the template rendered, whether with error=True,
\* and whether the row the page is about is in the database.
Page(template, error, exists) == [page |-> template, error |-> error, exists |-> exists]

\* GET /person/<person_id>.  abort(404) raises NotFound inside the try block,
\* and "except Exception" catches it: the page is rendered with person=None
\* and error=True, with status 200 when the template renders so (renders) and
\* 500 when it raises.
PersonProfile(w0, person_id, renders) ==
    LET w == RouteConnects(w0)
        exists == person_id \in {PersonIdOf(n) : n \in PersonNames}
        person == RunQuery(w, [sql |-> "person", person_id |-> person_id])
        posts == RunQuery(person.w, [sql |-> "posts_by_person", person_id |-> person_id])
        friends == RunQuery(posts.w, [sql |-> "friends", person_id |-> person_id])
        events == RunQuery(friends.w, [sql |-> "events"])
        attended == IF \E row \in events.w.tables : row.table = "Event"
                    THEN RunQuery(events.w, [sql |-> "attendees"]) ELSE events
    IN  IF w.conn = "none"
        THEN Response(Flash(w, "Database connection not available. Cannot load profile."),
                      503, Page("503.html", FALSE, exists))
        ELSE IF person.rows = <<>>
        THEN Response(Flash(person.w, "Failed to load profile data: 404 Not Found"),
                      IF renders THEN 200 ELSE 500, Page("person.html", TRUE, exists))
        ELSE Response(attended.w, 200, Page("person.html", FALSE, exists))

\* GET /event/<event_id>: as person_profile; the helper raises ConnectionError
\* when there is no connection, which the same except clause catches.
EventDetailPage(w0, event_id, renders) ==
    LET w == RouteConnects(w0)
        exists == \E row \in w0.tables : row.table = "Event" /\ row.event_id = event_id
        w1 == IF NoConnection(w) THEN Reconnect(w) ELSE w
        event == RunQuery(w1, [sql |-> "event", event_id |-> event_id])
        locations == RunQuery(event.w, [sql |-> "locations", event_id |-> event_id])
        attendees == RunQuery(locations.w, [sql |-> "attendees", event_id |-> event_id])
    IN  IF w.conn = "none"
        THEN Response(Flash(w, "Database connection not available. Cannot load event details."),
                      503, Page("503.html", FALSE, exists))
        ELSE IF w1.conn = "none"
        THEN Response(Flash(w1, "Failed to load event data: ConnectionError"),
                      IF renders THEN 200 ELSE 500, Page("event_detail.html", TRUE, exists))
        ELSE IF event.rows = <<>>
        THEN Response(Flash(event.w, "Failed to load event data: 404 Not Found"),
                      IF renders THEN 200 ELSE 500, Page("event_detail.html", TRUE, exists))
        ELSE Response(attendees.w, 200, Page("event_detail.html", FALSE, exists))

\* POST /api/posts.  An exception that leaves the route (the TypeError of
\* "'author_name' not in data" on a number) is answered 500 by the framework.
AddPostApi(w0, body, policy) ==
    LET w == RouteConnects(w0)
        json == GetJson(body, policy)
        data == json.value
        \* the try block
        Try(author_name, text, sentiment) ==
            LET author == GetPersonByNameDb(w, author_name)
            IN  IF author.raised = "ConnectionError"
                THEN Response(author.w, 503,
                              Error("Database connection error during operation"))
                ELSE IF ~author.value.found
                THEN Response(author.w, 404, Error("Author not found"))
                ELSE LET new_post_id == author.w.uuid
                         r == AddPostDb([author.w EXCEPT !.uuid = @ + 1], new_post_id,
                                        author.value.person_id, text, sentiment)
                     IN  IF r.raised = "ConnectionError"
                         THEN Response(r.w, 503,
                                       Error("Database connection error during operation"))
                         ELSE IF r.success
                         THEN Response(r.w, 201,
                                       [message |-> "Post added successfully",
                                        post_id |-> new_post_id,
                                        author_id |-> author.value.person_id])
                         ELSE Response(r.w, 500, Error("Failed to save post to the database"))
    IN  IF w.conn = "none"
        THEN Response(w, 503, Error("Database connection not available"))
        ELSE IF json.aborted # 0 THEN Response(w, json.aborted, Error("get_json"))
        ELSE IF ~Truthy(data) THEN Response(w, 400, Error("Invalid JSON payload"))
        ELSE IF data.json = "number" THEN Response(w, 500, Error("TypeError"))
        ELSE IF data.json # "object"
        THEN Response(w, 400, Error("Missing 'author_name' or 'text' in request body"))
        ELSE IF "author_name" \notin DOMAIN data.fields \/ "text" \notin DOMAIN data.fields
        THEN Response(w, 400, Error("Missing 'author_name' or 'text' in request body"))
        ELSE LET author_name == data.fields["author_name"]
                 text == data.fields["text"]
                 sentiment == IF "sentiment" \in DOMAIN data.fields
                              THEN data.fields["sentiment"] ELSE JNull
             IN  IF ~NonEmptyStr(author_name)
                 THEN Response(w, 400, Error("'author_name' must be a non-empty string"))
                 ELSE IF ~NonEmptyStr(text)
                 THEN Response(w, 400, Error("'text' must be a non-empty string"))
                 ELSE IF sentiment.json \notin {"null", "string"}
                 THEN Response(w, 400, Error("'sentiment' must be a string if provided"))
                 ELSE Try(author_name.s, text.s, sentiment)

\* float(value) returns: a number, or a string that spells one.
IsFloat(value) ==
    \/ value.json = "number"
    \/ value.json = "string" /\ value.s \in {"1.5"}

\* The checks of the body of POST /api/events, in the order of the code: ""
\* when it passes them all.
EventError(fields) ==
    LET event_name == fields["event_name"]
        description == fields["description"]
        event_date_str == fields["event_date"]
        locations_data == fields["locations"]
        attendee_names == fields["attendee_names"]
        \* the checks of one item of 'locations'
        \* str(value).strip() is empty.
        Blank(value) == value.json = "string" /\ value.s \in {"", " "}
        LocationError(loc) ==
            IF loc.json # "object" THEN "Each item in 'locations' must be an object"
            ELSE IF \E f \in {"name", "latitude", "longitude"} :
                        f \notin DOMAIN loc.fields \/ Blank(loc.fields[f])
            THEN "Location missing required fields or has empty values"
            ELSE IF ~IsFloat(loc.fields["latitude"]) \/ ~IsFloat(loc.fields["longitude"])
            THEN "Location has invalid latitude/longitude. Must be numbers."
            ELSE IF "description" \in DOMAIN loc.fields
                    /\ loc.fields["description"].json # "string"
            THEN "Location 'description' must be a string if provided."
            ELSE IF "address" \in DOMAIN loc.fields /\ loc.fields["address"].json # "string"
            THEN "Location 'address' must be a string if provided."
            ELSE ""
    IN  IF ~NonEmptyStr(event_name) THEN "'event_name' must be a non-empty string"
        ELSE IF description.json # "string" THEN "'description' must be a string"
        ELSE IF ~NonEmptyStr(event_date_str) THEN "'event_date' must be a non-empty string"
        ELSE IF attendee_names.json # "array" \/ ~Truthy(attendee_names)
        THEN "'attendee_names' must be a non-empty list of strings"
        ELSE IF \E i \in DOMAIN attendee_names.items : ~NonEmptyStr(attendee_names.items[i])
        THEN "Each name in 'attendee_names' must be a non-empty string"
        ELSE IF locations_data.json # "array" THEN "'locations' must be a list"
        ELSE IF ~Truthy(locations_data) THEN "'locations' list cannot be empty"
        ELSE IF \E i \in DOMAIN locations_data.items :
                    LocationError(locations_data.items[i]) # ""
        THEN LocationError(locations_data.items[
                 CHOOSE i \in DOMAIN locations_data.items :
                     /\ LocationError(locations_data.items[i]) # ""
                     /\ \A j \in 1 .. (i - 1) : LocationError(locations_data.items[j]) = ""])
        \* datetime.fromisoformat(s.replace('Z', '+00:00')) returns for these.
        ELSE IF event_date_str.s \notin {"2025-06-01T18:00:00Z", "2025-06-01T18:00:00"}
        THEN "Invalid timestamp format for 'event_date'."
        ELSE ""

\* The loop of add_event_api over attendee_names: the ids of the names found,
\* up to the first name that is not found or the ConnectionError that ends it.
RECURSIVE AttendeeIds(_, _, _)
AttendeeIds(w, names, ids) ==
    IF names = <<>> THEN [w |-> w, raised |-> "nothing", missing |-> FALSE, ids |-> ids]
    ELSE LET attendee == GetPersonByNameDb(w, Head(names).s)
         IN  IF attendee.raised # "nothing"
             THEN [w |-> attendee.w, raised |-> attendee.raised, missing |-> FALSE, ids |-> ids]
             ELSE IF ~attendee.value.found
             THEN [w |-> attendee.w, raised |-> "nothing", missing |-> TRUE, ids |-> ids]
             ELSE AttendeeIds(attendee.w, Tail(names), Append(ids, attendee.value.person_id))

\* POST /api/events.  "field not in data" is a TypeError on a number, which
\* leaves the route and is answered 500 by the framework.
AddEventApi(w0, body, policy) ==
    LET w == RouteConnects(w0)
        json == GetJson(body, policy)
        data == json.value
        required_fields ==
            {"event_name", "description", "event_date", "locations", "attendee_names"}
        \* the try block
        Try(fields) ==
            LET attendees == AttendeeIds(w, fields["attendee_names"].items, <<>>)
            IN  IF attendees.raised = "ConnectionError"
                THEN Response(attendees.w, 503,
                              Error("Database connection error during operation"))
                ELSE IF attendees.missing
                THEN Response(attendees.w, 404, Error("Attendee not found"))
                ELSE LET new_event_id == attendees.w.uuid
                         r == AddFullEventWithDetailsDb(
                                  [attendees.w EXCEPT !.uuid = @ + 1], new_event_id,
                                  fields["event_name"].s, fields["event_date"].s,
                                  fields["locations"].items, attendees.ids)
                     IN  IF r.raised = "ConnectionError"
                         THEN Response(r.w, 503,
                                       Error("Database connection error during operation"))
                         ELSE IF r.success
                         THEN Response(r.w, 201,
                                       [message |-> "Event and attendees added successfully",
                                        event_id |-> new_event_id,
                                        attendees |-> attendees.ids])
                         ELSE Response(r.w, 500,
                                       Error("Failed to save event and attendee to the database"))
    IN  IF w.conn = "none"
        THEN Response(w, 503, Error("Database connection not available"))
        ELSE IF json.aborted # 0 THEN Response(w, json.aborted, Error("get_json"))
        ELSE IF ~Truthy(data) THEN Response(w, 400, Error("Invalid JSON payload"))
        ELSE IF data.json = "number" THEN Response(w, 500, Error("TypeError"))
        ELSE IF data.json # "object" THEN Response(w, 400, Error("Missing required fields"))
        ELSE IF ~(required_fields \subseteq DOMAIN data.fields)
        THEN Response(w, 400, Error("Missing required fields"))
        ELSE IF EventError(data.fields) # ""
        THEN Response(w, 400, Error(EventError(data.fields)))
        ELSE Try(data.fields)

-----------------------------------------------------------------------------
\* The planning API (introvert-ally-api/main.py) and the agent it calls.

Thought(text, value) == [type |-> "thought", data |-> Str(text, value)]

\* What agent_engine.stream_query delivers: events, and then maybe an
\* exception.  An event holds a part with a text ("text"), a part with a
\* tool_code ("tool_code"), or is not a dict ("malformed").
StreamEvent(kind, text) == [kind |-> kind, text |-> text]

\* The texts an agent sends, and what json.loads makes of the ones that are
\* JSON documents.  No concatenation of two or more of the texts is a JSON
\* document.
Fence == "<fence json>"     \* three backquotes and the word json
FenceEnd == "<fence>"       \* three backquotes
PlanText == "{event_name: Dinner}"
JsonTexts == {PlanText, "{}", "[]", "null"}

JsonLoads(text) ==
    IF text = PlanText THEN JObject([event_name |-> JStr("Dinner")])
    ELSE IF text = "{}" THEN JObject(<<>>)
    ELSE IF text = "[]" THEN JArray(<<>>)
    ELSE JNull

\* The data of an error event: a message and the raw output, the texts
\* accumulated so far.
ErrorData(message, raw_output) ==
    JObject([message |-> JStr(message), raw_output |-> [json |-> "string", texts |-> raw_output]])

\* The thoughts yielded while the stream is read, in order.
RECURSIVE StreamThoughts(_)
StreamThoughts(events) ==
    IF events = <<>> THEN <<>>
    ELSE LET event == Head(events)
             thought == IF event.kind = "text" THEN Thought("Agent: ", event.text)
                        ELSE IF event.kind = "tool_code"
                        THEN Thought("Agent is considering using a tool", "")
                        ELSE Thought("Error processing agent event part", "")
         IN  <<thought>> \o StreamThoughts(Tail(events))

\* accumulated_json_str after the stream, as the sequence of the texts that
\* were added to it.
RECURSIVE Accumulated(_)
Accumulated(events) ==
    IF events = <<>> THEN <<>>
    ELSE (IF Head(events).kind = "text" THEN <<Head(events).text>> ELSE <<>>)
         \o Accumulated(Tail(events))

\* The end of call_agent_for_plan, after the stream has ended normally.  The
\* block is accumulated.split(Fence, 1)[1].rsplit(FenceEnd, 1)[0]: what
\* follows the first opening fence, up to the last fence after it when there
\* is one.
PlanOutcome(accumulated) ==
    LET first == CHOOSE i \in DOMAIN accumulated :
                     accumulated[i] = Fence /\ \A j \in 1 .. (i - 1) : accumulated[j] # Fence
        rest == SubSeq(accumulated, first + 1, Len(accumulated))
        fences == {i \in DOMAIN rest : rest[i] \in {Fence, FenceEnd}}
        json_block ==
            IF fences = {} THEN rest
            ELSE SubSeq(rest, 1, (CHOOSE i \in fences : \A j \in fences : j <= i) - 1)
        texts == IF \E i \in DOMAIN accumulated : accumulated[i] = Fence
                 THEN json_block ELSE accumulated
    IN  IF texts = <<>>
        THEN <<Thought("Agent did not provide any text content in its response.", ""),
               [type |-> "error",
                data |-> ErrorData("Agent returned no content.", <<>>)]>>
        ELSE IF Len(texts) = 1 /\ texts[1] \in JsonTexts
        THEN <<[type |-> "plan_complete", data |-> JsonLoads(texts[1])]>>
        ELSE <<Thought("Failed to parse the output of the agent as a valid plan.", ""),
               Thought("Raw output received", ""),
               [type |-> "error",
                data |-> ErrorData("JSON parsing error", texts)]>>

\* A run of a generator: the events it yields, and whether an exception ends
\* it (after them).
Run(events, raised) == [events |-> events, raised |-> raised]

\* call_agent_for_plan, run to its end.  ', '.join(value) raises TypeError
\* unless value is a string or a list of strings.
CallAgentForPlan(user_name, planned_date, location_n_perference, selected_friend_names_list, stream) ==
    LET joins ==
            \/ selected_friend_names_list.json = "string"
            \/ /\ selected_friend_names_list.json = "array"
               /\ \A i \in DOMAIN selected_friend_names_list.items : selected_friend_names_list.items[i].json = "string"
        opening == <<Thought("--- IntrovertAlly Agent Call Initiated ---", ""),
                     Thought("Session ID for this run", ""), Thought("User", ""),
                     Thought("Planned Date", ""), Thought("Location/Preference", "")>>
        sending == <<Thought("Selected Friends", ""), Thought("Initiating plan", ""),
                     Thought("Sending detailed planning prompt to agent", ""),
                     Thought("--- Agent Response Stream Starting ---", "")>>
        read == StreamThoughts(stream.events)
    IN  IF ~joins THEN Run(opening, TRUE)
        ELSE IF stream.raises
        THEN Run(opening \o sending \o read
                 \o <<Thought("Critical error during agent stream query", ""),
                      [type |-> "error",
                       data |-> ErrorData("Error during agent interaction",
                                         Accumulated(stream.events))]>>,
                 FALSE)
        ELSE Run(opening \o sending \o read
                 \o <<Thought("--- End of Agent Response Stream ---", "")>>
                 \o PlanOutcome(Accumulated(stream.events)),
                 FALSE)

\* post_plan_event, run to its end.  confirmed_plan.get raises unless the
\* plan is an object, and edited_invite_message[:100] unless the message is a
\* string or a list.
PostPlanEvent(user_name, confirmed_plan, edited_invite_message, agent_session_user_id, stream) ==
    LET opening == <<Thought("--- Post Plan Event Agent Call Initiated ---", ""),
                     Thought("Agent Session ID for this run", ""),
                     Thought("User performing action", "")>>
        sending == <<Thought("Initiating process to post event and invite", ""),
                     Thought("Sending posting instructions to agent", "")>>
        read == StreamThoughts(stream.events)
    IN  IF confirmed_plan.json # "object" THEN Run(opening, TRUE)
        ELSE IF edited_invite_message.json \notin {"string", "array"}
        THEN Run(Append(opening, Thought("Received Confirmed Plan (event_name)", "")), TRUE)
        ELSE LET received == <<Thought("Received Confirmed Plan (event_name)", ""),
                               Thought("Received Invite Message", "")>>
             IN  IF stream.raises
                 THEN Run(opening \o received \o sending \o read
                          \o <<Thought("Critical error during agent stream query for posting", ""),
                               [type |-> "error",
                                data |-> ErrorData("Error during agent interaction for posting",
                                                  Accumulated(stream.events))]>>,
                          FALSE)
                 ELSE Run(opening \o received \o sending \o read
                          \o <<Thought("--- End of Agent Response Stream for Posting ---", ""),
                               [type |-> "posting_finished",
                                data |-> JObject([success |-> [json |-> "boolean", b |-> TRUE],
                                                  message |-> JStr("Agent has finished processing the event and post creation.")])]>>,
                          FALSE)

\* data.get(key): None when the key is missing.
Get(fields, key) == IF key \in DOMAIN fields THEN fields[key] ELSE JNull

\* The loop of handle_plan_request and handle_post_request over the events of
\* a run: it ends with the first event of the terminal type or of type error,
\* which it keeps; an exception of the generator leaves the loop.
Drive(run, terminal) ==
    LET ends == {i \in DOMAIN run.events : run.events[i].type \in {terminal, "error"}}
        end == CHOOSE i \in ends : \A j \in ends : i <= j
    IN  IF ends = {} THEN [seen |-> run.events, last |-> [type |-> "none", data |-> JNull], raised |-> run.raised]
        ELSE [seen |-> SubSeq(run.events, 1, end), last |-> run.events[end], raised |-> FALSE]

\* What a handler does: it returns a response object, returns a tuple
\* (response, status), or raises; seen are the events its loop took.
Returns(tuple, status, body, seen) ==
    [raised |-> "nothing", tuple |-> tuple, status |-> status, body |-> body, seen |-> seen]
Raises(exception, status) ==
    [raised |-> exception, tuple |-> FALSE, status |-> status, body |-> Error(exception),
     seen |-> <<>>]

\* The end of both handlers: "if final_result: ... elif error_result: ...
\* else: ...".
Answered(driven, terminal, failure, missing) ==
    LET final_result == IF driven.last.type = terminal THEN driven.last.data ELSE JNull
        error_result == IF driven.last.type = "error" THEN driven.last.data ELSE JNull
    IN  IF driven.raised THEN Raises("Exception", 500)
        ELSE IF Truthy(final_result) THEN Returns(FALSE, 200, final_result, driven.seen)
        ELSE IF Truthy(error_result)
        THEN Returns(TRUE, 500, [error |-> failure, details |-> error_result], driven.seen)
        ELSE Returns(TRUE, 500, Error(missing), driven.seen)

HandlePlanRequest(method, body, policy, stream) ==
    LET json == GetJson(body, policy)
        data == json.value
    IN  IF method # "POST" THEN Returns(TRUE, 405, Error("POST method is required."), <<>>)
        ELSE IF json.aborted # 0 THEN Raises("HTTPException", json.aborted)
        ELSE IF data.json # "object" THEN Raises("AttributeError", 500)
        ELSE LET user_name == Get(data.fields, "user_name")
                 planned_date == Get(data.fields, "planned_date")
                 location_n_perference == Get(data.fields, "location_n_perference")
                 selected_friend_names_list ==
                     IF "selected_friend_names_list" \in DOMAIN data.fields
                     THEN data.fields["selected_friend_names_list"] ELSE JArray(<<>>)
             IN  IF ~(Truthy(user_name) /\ Truthy(planned_date)
                      /\ Truthy(location_n_perference))
                 THEN Returns(TRUE, 400, Error("Missing required parameters."), <<>>)
                 ELSE Answered(
                          Drive(CallAgentForPlan(user_name, planned_date, location_n_perference,
                                                 selected_friend_names_list, stream),
                                "plan_complete"),
                          "plan_complete", "The agent encountered an error",
                          "The agent did not return a complete plan.")

HandlePostRequest(method, body, policy, stream) ==
    LET json == GetJson(body, policy)
        data == json.value
    IN  IF method # "POST" THEN Returns(TRUE, 405, Error("POST method is required."), <<>>)
        ELSE IF json.aborted # 0 THEN Raises("HTTPException", json.aborted)
        ELSE IF data.json # "object" THEN Raises("AttributeError", 500)
        ELSE LET user_name == Get(data.fields, "user_name")
                 confirmed_plan == Get(data.fields, "confirmed_plan")
                 edited_invite_message == Get(data.fields, "edited_invite_message")
                 agent_session_user_id == Get(data.fields, "agent_session_user_id")
             IN  IF ~(Truthy(user_name) /\ Truthy(confirmed_plan)
                      /\ Truthy(edited_invite_message) /\ Truthy(agent_session_user_id))
                 THEN Returns(TRUE, 400, Error("Missing required parameters."), <<>>)
                 ELSE Answered(
                          Drive(PostPlanEvent(user_name, confirmed_plan, edited_invite_message,
                                              agent_session_user_id, stream),
                                "posting_finished"),
                          "posting_finished", "The agent encountered an error while posting",
                          "The agent did not confirm the posting was finished.")

NotHandled == [raised |-> "nothing", tuple |-> FALSE, status |-> 0, body |-> Error(""),
               seen |-> <<>>]

\* api_handler: the status and body that the client receives, whether the
\* CORS headers are on the response, and what the handler of the path did.
\* "response.headers.extend(headers)" raises AttributeError when the handler
\* returned a tuple; an exception that leaves api_handler is answered 500 by
\* the framework, except an HTTPException, which is answered with its code.
ApiHandler(engine, method, path, body, policy, stream) ==
    LET handled == IF path = "/plan" THEN HandlePlanRequest(method, body, policy, stream)
                   ELSE HandlePostRequest(method, body, policy, stream)
    IN  IF method = "OPTIONS"
        THEN [status |-> 204, body |-> Error(""), cors |-> TRUE, handled |-> NotHandled]
        ELSE IF engine = "none"
        THEN [status |-> 500, body |-> Error("The server could not initialize the AI agent."),
              cors |-> TRUE, handled |-> NotHandled]
        ELSE IF path \notin {"/plan", "/post"}
        THEN [status |-> 404, body |-> Error("Endpoint not found. Use /plan or /post."),
              cors |-> TRUE, handled |-> NotHandled]
        ELSE IF handled.raised = "HTTPException"
        THEN [status |-> handled.status, body |-> handled.body, cors |-> FALSE,
              handled |-> handled]
        ELSE IF handled.raised # "nothing" \/ handled.tuple
        THEN [status |-> 500, body |-> Error("Internal Server Error"), cors |-> FALSE,
              handled |-> handled]
        ELSE [status |-> handled.status, body |-> handled.body, cors |-> TRUE,
              handled |-> handled]

-----------------------------------------------------------------------------
\* The state machine.

NoAnswer ==
    [entry |-> "none", method |-> "", path |-> "", status |-> 0, body |-> [error |-> ""],
     flashes |-> <<>>, trace |-> <<>>, cors |-> FALSE,
     handled |-> NotHandled]

\* The coroutines in which the framework runs the tool calls that the model
\* asks for in one answer.
Coroutines == {"c1", "c2"}
NotListed == [by |-> "none", returned |-> <<>>]

\* The sessions before their first model call.
InitSessions ==
    /\ state = [s \in Sessions |-> <<>>]
    /\ nextUuid = 1
    /\ pc = [s \in Sessions |-> "new"]
    /\ pending = [s \in Sessions |-> None]
    /\ prev = [s \in Sessions |-> None]
    /\ calls = [c \in Coroutines |-> None]
    /\ last = [kind |-> "none"]

\* No insert in progress; local_agent_proxy as LocalOrchestratorAgentProxy
\* constructs it, with session_id None; no session on the orchestrator.
NoSessionId == "None"
NoWeb ==
    /\ inserting = [pc |-> "idle"]
    /\ local_agent_proxy = [session_id |-> NoSessionId]
    /\ created = {}
    /\ generated = [fn |-> "none"]

\* The web application and the API function before their start.
NoHttp ==
    /\ conn = "none"
    /\ uncommitted = {}
    /\ tables = {}
    /\ agent_engine = "none"
    /\ answer = NoAnswer
    /\ NoWeb

\* After HostAgent.__init__: any subset of the addresses could be reached.
Init ==
    /\ \E reachable \in SUBSET {RemoteAgentAddresses[i] : i \in DOMAIN RemoteAgentAddresses} :
           LET registry == ResolveCards(RemoteAgentAddresses, reachable, EmptyRegistry)
           IN  /\ addresses = RemoteAgentAddresses
               /\ tried = [i \in DOMAIN RemoteAgentAddresses |->
                              [address |-> RemoteAgentAddresses[i],
                               fetched |-> RemoteAgentAddresses[i] \in reachable]]
               /\ phase = "serving"
               /\ cards = registry.cards
               /\ remote_agent_connections = registry.connections
               /\ key_order = registry.names
               /\ agents = AgentsAfterInit(registry)
               /\ listed = NotListed
    /\ InitSessions
    /\ NoHttp

\* The framework calls before_model_callback before every call of the model, and
\* the model is not called while a tool call of the session is awaited.
before_model_callback(s) ==
    /\ pc[s] # "awaiting"
    /\ LET r == BeforeModelCallback(state[s], nextUuid)
       IN  /\ nextUuid + r.drawn <= MaxUuid + 1
           /\ state' = [state EXCEPT ![s] = r.state]
           /\ nextUuid' = nextUuid + r.drawn
    /\ pc' = [pc EXCEPT ![s] = "ready"]
    /\ UNCHANGED <<registryVars, httpVars, webVars, pending, prev, calls, last>>

\* send_task with a name that has no connection: it raises at once.  send_task
\* is a tool of the agent: the model calls it, so it runs only after the model
\* was called, hence after before_model_callback (pc[s] = "ready"), and one call
\* of a session ends before the next begins.
send_task_unknown_agent(s, agent_name) ==
    /\ pc[s] = "ready"
    /\ LET r == SendTaskBegin(state[s], agent_name, remote_agent_connections, nextUuid)
       IN  /\ r.kind = "raise"
           /\ state' = [state EXCEPT ![s] = r.state]
           /\ last' = [kind |-> "raise", session |-> s, agent_name |-> agent_name,
                       request |-> None, task |-> None, error |-> r.error,
                       response |-> <<>>, flagged |-> FALSE, saved |-> <<>>,
                       converted |-> <<>>]
    /\ UNCHANGED <<registryVars, httpVars, webVars, nextUuid, pc, pending, prev, calls>>

\* send_task from its call to the await of client.send_task: the request leaves.
send_task_send(s, agent_name) ==
    /\ pc[s] = "ready"
    /\ LET r == SendTaskBegin(state[s], agent_name, remote_agent_connections, nextUuid)
       IN  /\ r.kind = "send"
           /\ nextUuid + r.drawn <= MaxUuid + 1
           /\ state' = [state EXCEPT ![s] = r.state]
           /\ nextUuid' = nextUuid + r.drawn
           /\ pending' = [pending EXCEPT ![s] = r.request]
    /\ pc' = [pc EXCEPT ![s] = "awaiting"]
    /\ UNCHANGED <<registryVars, httpVars, webVars, prev, calls, last>>

\* send_task_receive with the state kept in one dict that the sessions share.
send_task_receive_SharedState(s, reply) ==
    /\ pc[s] = "awaiting"
    /\ LET request == pending[s]
           task == TaskOf(reply, request.id)
           r == SendTaskEnd(state[s], request.agent_name, request.id, task)
       IN  /\ state' = [t \in Sessions |-> r.state]
           /\ prev' = [prev EXCEPT ![s] =
                          [id |-> request.id, sessionId |-> request.sessionId,
                           answer |-> IF task # None /\ task.status # None
                                      THEN task.status.state ELSE "no status"]]
           /\ last' = [kind |-> r.kind, session |-> s, agent_name |-> request.agent_name,
                       request |-> request, task |-> task, error |-> r.error,
                       response |-> r.response, flagged |-> r.flagged, saved |-> r.saved,
                       converted |-> r.converted]
    /\ pc' = [pc EXCEPT ![s] = "ready"]
    /\ pending' = [pending EXCEPT ![s] = None]
    /\ UNCHANGED <<registryVars, httpVars, webVars, nextUuid, calls>>

\* send_task from the return of client.send_task to its end.
send_task_receive(s, reply) ==
    /\ pc[s] = "awaiting"
    /\ LET request == pending[s]
           task == TaskOf(reply, request.id)
           r == SendTaskEnd(state[s], request.agent_name, request.id, task)
       IN  /\ state' = [state EXCEPT ![s] = r.state]
           /\ prev' = [prev EXCEPT ![s] =
                          [id |-> request.id, sessionId |-> request.sessionId,
                           answer |-> IF task # None /\ task.status # None
                                      THEN task.status.state ELSE "no status"]]
           /\ last' = [kind |-> r.kind, session |-> s, agent_name |-> request.agent_name,
                       request |-> request, task |-> task, error |-> r.error,
                       response |-> r.response, flagged |-> r.flagged, saved |-> r.saved,
                       converted |-> r.converted]
    /\ pc' = [pc EXCEPT ![s] = "ready"]
    /\ pending' = [pending EXCEPT ![s] = None]
    /\ UNCHANGED <<registryVars, httpVars, webVars, nextUuid, calls>>

\* The conversations of the sessions S: the model is called, it calls send_task
\* with any agent name, and the remote agent answers with a reply that carries
\* parts of P.
Step(S, P) ==
    \/ \E s \in S : before_model_callback(s)
    \/ \E s \in S, agent_name \in AgentNames : send_task_unknown_agent(s, agent_name)
    \/ \E s \in S, agent_name \in AgentNames : send_task_send(s, agent_name)
    \/ \E s \in S :
           /\ pc[s] = "awaiting"
           /\ \E ps \in P : \E reply \in RepliesOf(ps) : send_task_receive(s, reply)

\* One conversation over any number of delegated tasks; the replies carry every
\* task state and no parts.
Next == Step({"s1"}, NoPartLists)

Spec == Init /\ [][Next]_vars

\* The first send_task call of a conversation, answered with any reply of
\* MaxParts parts at most.
NextCall ==
    \/ last.kind = "none" /\ before_model_callback("s1")
    \/ \E agent_name \in AgentNames : last.kind = "none" /\ send_task_unknown_agent("s1", agent_name)
    \/ \E agent_name \in AgentNames : last.kind = "none" /\ send_task_send("s1", agent_name)
    \/ /\ pc["s1"] = "awaiting"
       /\ \E ps \in PartLists(MaxParts) : \E reply \in RepliesOf(ps) : send_task_receive("s1", reply)

SpecCall == Init /\ [][NextCall]_vars

\* Two conversations at once, each up to the end of its first delegated task:
\* the framework runs the sessions in one event loop, so that a call of one
\* session may begin and end while a call of the other is awaited.
NextSessions ==
    \/ \E s \in Sessions : prev[s] = None /\ before_model_callback(s)
    \/ \E s \in Sessions, agent_name \in AgentNames :
           prev[s] = None /\ send_task_unknown_agent(s, agent_name)
    \/ \E s \in Sessions, agent_name \in AgentNames :
           prev[s] = None /\ send_task_send(s, agent_name)
    \/ \E s \in Sessions :
           /\ pc[s] = "awaiting"
           /\ \E ps \in NoPartLists : \E reply \in RepliesOf(ps) : send_task_receive(s, reply)

SpecSessions == Init /\ [][NextSessions]_vars

-----------------------------------------------------------------------------
\* send_task calls that overlap.  When the model asks for several tool calls in
\* one answer the framework runs them as coroutines of one event loop, on the
\* state dict of the one session: a coroutine runs alone from its start to its
\* await of client.send_task and from the return of that await to its end, and
\* another may run in between.

InFlight == {c \in Coroutines : calls[c] # None}

\* send_task in coroutine c, to its await.  alone tells whether no other call of
\* the session was in flight at any time during this one.
overlap_send(c, agent_name) ==
    /\ pc["s1"] = "ready"
    /\ calls[c] = None
    /\ LET r == SendTaskBegin(state["s1"], agent_name, remote_agent_connections, nextUuid)
       IN  /\ r.kind = "send"
           /\ nextUuid + r.drawn <= MaxUuid + 1
           /\ state' = [state EXCEPT !["s1"] = r.state]
           /\ nextUuid' = nextUuid + r.drawn
           /\ calls' = [d \in Coroutines |->
                           IF d = c
                           THEN [agent_name |-> agent_name, id |-> r.request.id,
                                 sessionId |-> r.request.sessionId, alone |-> InFlight = {}]
                           ELSE IF calls[d] = None THEN None
                           ELSE [calls[d] EXCEPT !.alone = FALSE]]
    /\ UNCHANGED <<registryVars, httpVars, webVars, pc, pending, prev, last>>

\* send_task in coroutine c, from the return of its await to its end.
overlap_receive(c, reply) ==
    /\ calls[c] # None
    /\ LET request == calls[c]
           task == TaskOf(reply, request.id)
           r == SendTaskEnd(state["s1"], request.agent_name, request.id, task)
       IN  /\ state' = [state EXCEPT !["s1"] = r.state]
           /\ prev' = [prev EXCEPT !["s1"] =
                          [id |-> request.id, sessionId |-> request.sessionId,
                           answer |-> IF task # None /\ task.status # None
                                      THEN task.status.state ELSE "no status"]]
           /\ last' = [kind |-> r.kind, session |-> "s1", agent_name |-> request.agent_name,
                       request |-> request, task |-> task, error |-> r.error,
                       response |-> r.response, flagged |-> r.flagged, saved |-> r.saved,
                       converted |-> r.converted]
    /\ calls' = [calls EXCEPT ![c] = None]
    /\ UNCHANGED <<registryVars, httpVars, webVars, nextUuid, pc, pending>>

\* The model is called when no tool call of the session is running.
NextOverlap ==
    \/ InFlight = {} /\ before_model_callback("s1")
    \/ \E agent_name \in AgentNames : send_task_unknown_agent("s1", agent_name)
    \/ \E c \in Coroutines, agent_name \in AgentNames : overlap_send(c, agent_name)
    \/ \E c \in Coroutines :
           /\ calls[c] # None
           /\ \E ps \in NoPartLists : \E reply \in RepliesOf(ps) : overlap_receive(c, reply)

SpecOverlap == Init /\ [][NextOverlap]_vars

-----------------------------------------------------------------------------
\* The registry: its construction and the calls that read and change it.

\* The registry held by the two dicts and their key order.
Registry == [connections |-> remote_agent_connections, cards |-> cards, names |-> key_order]

SetRegistry(registry) ==
    /\ cards' = registry.cards
    /\ remote_agent_connections' = registry.connections
    /\ key_order' = registry.names

\* HostAgent(remote_agent_addresses) is called with any list of MaxAddresses
\* addresses at most, an address more than once included.
InitRegistry ==
    /\ addresses \in SeqsUpTo(Addresses, MaxAddresses)
    /\ tried = <<>>
    /\ phase = "resolving"
    /\ cards = <<>>
    /\ remote_agent_connections = <<>>
    /\ key_order = <<>>
    /\ agents = Str("", <<>>)
    /\ listed = NotListed
    /\ InitSessions
    /\ NoHttp

\* One turn of the loop of __init__, for the next address of the list; the
\* fetch of its card succeeds or raises.
init_try_address(fetched) ==
    /\ phase = "resolving"
    /\ Len(tried) < Len(addresses)
    /\ LET address == addresses[Len(tried) + 1]
           r == TryAddress(Registry, address, fetched)
       IN  /\ tried' = Append(tried, [address |-> address, fetched |-> fetched])
           /\ SetRegistry(r.registry)
           /\ phase' = IF r.raised THEN "failed" ELSE phase
    /\ UNCHANGED <<addresses, agents, listed, sessionVars, httpVars, webVars>>

\* The end of __init__, after the loop: self.agents is set.
init_finish ==
    /\ phase = "resolving"
    /\ Len(tried) = Len(addresses)
    /\ agents' = AgentsAfterInit(Registry)
    /\ phase' = "serving"
    /\ UNCHANGED <<addresses, tried, cards, remote_agent_connections, key_order, listed,
                   sessionVars, httpVars, webVars>>

register_agent_card(card) ==
    /\ phase = "serving"
    /\ LET r == RegisterAgentCard(Registry, card)
       IN  /\ SetRegistry(r.registry)
           /\ agents' = r.agents
           /\ listed' = [by |-> "register_agent_card", returned |-> r.listed]
    /\ UNCHANGED <<addresses, tried, phase, sessionVars, httpVars, webVars>>

\* list_remote_agents, called as a tool of the agent.
list_remote_agents ==
    /\ phase = "serving"
    /\ LET r == ListRemoteAgents(Registry)
       IN  /\ SetRegistry(r.registry)
           /\ listed' = [by |-> "tool", returned |-> r.returned]
    /\ UNCHANGED <<addresses, tried, phase, agents, sessionVars, httpVars, webVars>>

NextRegistry ==
    \/ \E fetched \in BOOLEAN : init_try_address(fetched)
    \/ init_finish
    \* with the cards that the addresses serve, or the card of an agent that none serves
    \/ \E card \in {CardAt(address) : address \in Addresses}
                    \cup {[name |-> "Notes Agent", description |-> "notes", url |-> "http://notes"]} :
           register_agent_card(card)
    \/ list_remote_agents

SpecRegistry == InitRegistry /\ [][NextRegistry]_vars

-----------------------------------------------------------------------------
\* The HTTP entry points.  A process runs the web application, whose global is
\* conn, or the planning API, whose global is agent_engine; the other global
\* is "absent" from it.  A request is handled to its end, and its response is
\* sent before the next request is taken.

\* The requests of one path: POST with each of the bodies, POST with a body
\* that is not JSON under each behaviour of get_json, and the other methods.
RequestsOf(path, bodies) ==
    LET Request(method, body, policy) ==
            [method |-> method, path |-> path, body |-> body, policy |-> policy]
    IN  {Request("POST", body, "None") : body \in bodies}
        \cup {Request("POST", NotJson, policy) : policy \in {"None", "BadRequest", "UnsupportedMediaType"}}
        \cup {Request(method, NotJson, "None") : method \in {"GET", "OPTIONS"}}

PostBodies ==
    {Json(JNumber(5)), Json(JObject(<<>>)), Json(JObject([text |-> JStr("hi")]))}
    \cup {Json(JObject([author_name |-> author_name, text |-> text])) :
              author_name \in {JStr("Alice"), JStr("Zed"), JStr(" "), JNumber(1)},
              text \in {JStr("hi"), JStr("")}}
    \cup {Json(JObject([author_name |-> JStr("Alice"), text |-> JStr("hi"),
                        sentiment |-> sentiment])) :
              sentiment \in {JStr("happy"), JNumber(1)}}

\* The bodies of POST /api/events: events that pass the checks of
\* add_event_api, with some attendees, known or not, none named twice (the
\* key of Attendance forbids it), and some locations; events that fail one of
\* the checks; and bodies that are no event.
EventBodies ==
    LET GoodLocation ==
            JObject([name |-> JStr("Cafe"), latitude |-> JNumber(1),
                     longitude |-> JStr("1.5")])
        GoodEvent ==
            [event_name |-> JStr("Dinner"), description |-> JStr(""),
             event_date |-> JStr("2025-06-01T18:00:00Z"),
             locations |-> JArray(<<GoodLocation>>),
             attendee_names |-> JArray(<<JStr("Alice")>>)]
        NameLists == {list \in SeqsUpTo({JStr("Alice"), JStr("Bob"), JStr("Zed")}, MaxAttendees) :
                          /\ list # <<>>
                          /\ \A i, j \in DOMAIN list : list[i] = list[j] => i = j}
        CheckedEvents ==
            {[GoodEvent EXCEPT !.attendee_names = JArray(attendee_names),
                               !.locations = JArray([i \in 1 .. n |-> GoodLocation])] :
                 attendee_names \in NameLists, n \in 1 .. MaxLocations}
        RejectedEvents ==
            {[GoodEvent EXCEPT !.event_name = JStr("")],
             [GoodEvent EXCEPT !.description = JNumber(1)],
             [GoodEvent EXCEPT !.event_date = JStr(" ")],
             [GoodEvent EXCEPT !.event_date = JStr("tomorrow")],
             [GoodEvent EXCEPT !.attendee_names = JArray(<<>>)],
             [GoodEvent EXCEPT !.attendee_names = JStr("Alice")],
             [GoodEvent EXCEPT !.attendee_names = JArray(<<JStr("Alice"), JStr(" ")>>)],
             [GoodEvent EXCEPT !.locations = JStr("Cafe")],
             [GoodEvent EXCEPT !.locations = JArray(<<>>)],
             [GoodEvent EXCEPT !.locations = JArray(<<JStr("Cafe")>>)],
             [GoodEvent EXCEPT !.locations = JArray(<<JObject([name |-> JStr("Cafe")])>>)],
             [GoodEvent EXCEPT !.locations =
                 JArray(<<JObject([name |-> JStr("Cafe"), latitude |-> JStr("north"),
                                   longitude |-> JNumber(1)])>>)],
             [GoodEvent EXCEPT !.locations =
                 JArray(<<JObject([name |-> JStr("Cafe"), latitude |-> JNull,
                                   longitude |-> JNumber(1)])>>)],
             [GoodEvent EXCEPT !.locations =
                 JArray(<<JObject([name |-> JStr("Cafe"), latitude |-> JNumber(1),
                                   longitude |-> JNumber(1), description |-> JNumber(1)])>>)],
             [GoodEvent EXCEPT !.locations =
                 JArray(<<JObject([name |-> JStr("Cafe"), latitude |-> JNumber(1),
                                   longitude |-> JNumber(1), address |-> JNumber(1)])>>)]}
    IN  {Json(JNumber(5)), Json(JObject(<<>>)), Json(JObject([event_name |-> JStr("Dinner")]))}
        \cup {Json(JObject(fields)) : fields \in CheckedEvents \cup RejectedEvents}

\* The requests to api_handler: bodies of /plan and of /post, complete or not,
\* and a path that is neither.
ApiRequests ==
    LET GoodPlan ==
            [user_name |-> JStr("Alice"), planned_date |-> JStr("2025-06-01"),
             location_n_perference |-> JStr("Rome")]
        PlanBodies ==
            {Json(JArray(<<>>)), Json(JObject(GoodPlan)),
             Json(JObject([user_name |-> JStr("Alice")])),
             Json(JObject([GoodPlan EXCEPT !.planned_date = JStr("")])),
             Json(JObject([user_name |-> JStr("Alice"), planned_date |-> JStr("2025-06-01"),
                           location_n_perference |-> JStr("Rome"),
                           selected_friend_names_list |-> JArray(<<JStr("Bob")>>)])),
             Json(JObject([user_name |-> JStr("Alice"), planned_date |-> JStr("2025-06-01"),
                           location_n_perference |-> JStr("Rome"),
                           selected_friend_names_list |-> JArray(<<JNumber(1)>>)]))}
        GoodPosting ==
            [user_name |-> JStr("Alice"),
             confirmed_plan |-> JObject([event_name |-> JStr("Dinner")]),
             edited_invite_message |-> JStr("Join us"),
             agent_session_user_id |-> JStr("Alice")]
        PostingBodies ==
            {Json(JArray(<<>>)), Json(JObject(GoodPosting)),
             Json(JObject([user_name |-> JStr("Alice")])),
             Json(JObject([GoodPosting EXCEPT !.confirmed_plan = JStr("Dinner")])),
             Json(JObject([GoodPosting EXCEPT !.edited_invite_message = JNumber(1)]))}
    IN  RequestsOf("/plan", PlanBodies) \cup RequestsOf("/post", PostingBodies)
        \cup RequestsOf("/other", {})

\* The streams of an agent: its events, and whether an exception ends it.
Streams ==
    LET texts == JsonTexts \cup {Fence, FenceEnd, "Sure"}
        events == {StreamEvent("text", text) : text \in texts}
                  \cup {StreamEvent("tool_code", ""), StreamEvent("malformed", "")}
    IN  [events : SeqsUpTo(events, MaxStreamEvents), raises : BOOLEAN]

\* After the import of the module: the web application has connected or not,
\* the planning API has got its agent engine or not.
InitHttp ==
    /\ cards = <<>>
    /\ remote_agent_connections = <<>>
    /\ key_order = <<>>
    /\ addresses = <<>>
    /\ tried = <<>>
    /\ phase = "serving"
    /\ agents = Str("", <<>>)
    /\ listed = NotListed
    /\ InitSessions
    /\ \/ conn \in {"none", "open"} /\ agent_engine = "absent"
       \/ conn = "absent" /\ agent_engine \in {"none", "engine"}
    /\ uncommitted = {}
    /\ tables = {}
    /\ answer = NoAnswer
    /\ NoWeb

\* What the routing of the web framework does with the method of a request to
\* a route declared with methods=['POST']: OPTIONS is answered by the
\* framework, any other method but POST is not allowed.
Routed(method, w, response) ==
    IF method = "POST" THEN response
    ELSE IF method = "OPTIONS" THEN Response(w, 200, Error(""))
    ELSE Response(w, 405, Error("Method Not Allowed"))

\* A route of the web application has handled a request.
Served(entry, request, r) ==
    /\ r.w.uuid <= MaxIds + 1
    /\ conn' = r.w.conn
    /\ uncommitted' = r.w.uncommitted
    /\ tables' = r.w.tables
    /\ nextUuid' = r.w.uuid
    /\ answer' = [entry |-> entry, method |-> request.method, path |-> request.path,
                  status |-> r.status, body |-> r.body, flashes |-> r.w.flashes,
                  trace |-> r.w.trace, cors |-> FALSE, handled |-> NotHandled]
    /\ UNCHANGED <<registryVars, webVars, agent_engine, state, pc, pending, prev, calls, last>>

add_post_api ==
    /\ conn # "absent"
    /\ answer = NoAnswer
    /\ \E request \in RequestsOf("/api/posts", PostBodies), env \in Environments(conn) :
           LET w == WorldOf(conn, uncommitted, tables, nextUuid, env)
           IN  \E r \in {Routed(request.method, w,
                                AddPostApi(w, request.body, request.policy))} :
                   Served("add_post_api", request, r)

add_event_api ==
    /\ conn # "absent"
    /\ answer = NoAnswer
    /\ \E request \in RequestsOf("/api/events", EventBodies), env \in Environments(conn) :
           LET w == WorldOf(conn, uncommitted, tables, nextUuid, env)
           IN  \E r \in {Routed(request.method, w,
                                AddEventApi(w, request.body, request.policy))} :
                   Served("add_event_api", request, r)

\* The page of a person and the page of an event, for an id that is in the
\* database or not.
person_profile ==
    /\ conn # "absent"
    /\ answer = NoAnswer
    /\ \E person_id \in {"p1", "p9"}, env \in Environments(conn), renders \in BOOLEAN :
       \E r \in {PersonProfile(WorldOf(conn, uncommitted, tables, nextUuid, env),
                                person_id, renders)} :
           Served("person_profile", [method |-> "GET", path |-> "/person/<person_id>"], r)

event_detail_page ==
    /\ conn # "absent"
    /\ answer = NoAnswer
    /\ \E event_id \in 1 .. MaxIds, env \in Environments(conn), renders \in BOOLEAN :
       \E r \in {EventDetailPage(WorldOf(conn, uncommitted, tables, nextUuid, env),
                                  event_id, renders)} :
           Served("event_detail_page", [method |-> "GET", path |-> "/event/<event_id>"], r)

\* The database server, or the network, ends the connection: the rows of an
\* open transaction are lost.
connection_lost ==
    /\ conn = "open"
    /\ answer = NoAnswer
    /\ conn' = "closed"
    /\ uncommitted' = {}
    /\ UNCHANGED <<registryVars, webVars, sessionVars, tables, agent_engine, answer>>

api_handler ==
    /\ agent_engine # "absent"
    /\ answer = NoAnswer
    /\ \E request \in ApiRequests, stream \in Streams :
       \E r \in {ApiHandler(agent_engine, request.method, request.path, request.body,
                           request.policy, stream)} :
           answer' = [entry |-> "api_handler", method |-> request.method,
                      path |-> request.path, status |-> r.status, body |-> r.body,
                      flashes |-> <<>>, trace |-> <<>>, cors |-> r.cors,
                      handled |-> r.handled]
    /\ UNCHANGED <<registryVars, webVars, sessionVars, conn, uncommitted, tables, agent_engine>>

\* The response has been sent to the client.
send_response ==
    /\ answer # NoAnswer
    /\ answer' = NoAnswer
    /\ UNCHANGED <<registryVars, webVars, sessionVars, conn, uncommitted, tables, agent_engine>>

NextHttp ==
    \/ add_post_api
    \/ add_event_api
    \/ person_profile
    \/ event_detail_page
    \/ connection_lost
    \/ api_handler
    \/ send_response

SpecHttp == InitHttp /\ [][NextHttp]_vars

-----------------------------------------------------------------------------
\* web/introvertally.py: the planning facade of the web application, which
\* reaches the orchestrator through one LocalOrchestratorAgentProxy.

\* What the network and the orchestrator do during one stream_query call:
\* create is the fate of the request that creates the session ("created",
\* "refused" when requests.post or raise_for_status raises, "bad_body" when the
\* session was created and the body of the answer is not a JSON object), run
\* that of the /run request.  The events of a /run answer are JSON values.
Networks ==
    LET WithText(t) == JObject([text |-> JStr(t)])
        Event(parts) == JObject([content |-> JObject([parts |-> JArray(parts)])])
        tool == JObject([name |-> JStr("send_task")])
        events == {Event(<<WithText(t)>>) : t \in {PlanText, "Sure", Fence, FenceEnd}}
                  \cup {Event(<<WithText(Fence), WithText(PlanText), WithText(FenceEnd)>>),
                        Event(<<JObject([text |-> JNumber(5)]), WithText(PlanText)>>),
                        Event(<<JObject([text |-> JStr("Sure"), functionCall |-> tool])>>),
                        Event(<<JNumber(7)>>),
                        JObject([content |-> JArray(<<JStr("{}")>>)]),
                        JObject(<<>>),
                        JNumber(7)}
        runs == {[kind |-> "json", value |-> JArray(es)] : es \in SeqsUpTo(events, MaxStreamEvents)}
                \cup {[kind |-> "json", value |-> v] : v \in {Event(<<WithText(PlanText)>>), JNumber(7)}}
                \cup {[kind |-> k, value |-> JNull] :
                          k \in {"not_json", "ConnectionError", "Timeout", "RequestException",
                                 "HTTPError", "HTTPError_json_raises"}}
    IN  [create : {"created", "refused", "bad_body"}, run : runs]

\* LocalOrchestratorAgentProxy.stream_query, run to its end on the proxy whose
\* fields are proxy: the fields after the call, the requests sent, the events
\* yielded and whether an exception ends the generator.  _create_session
\* assigns self.session_id before it sends its request.  In the handler of an
\* HTTPError, e.response.json() on a body that is not JSON raises the
\* JSONDecodeError of the json module that requests uses, which is not
\* json.JSONDecodeError when simplejson is installed and then leaves the
\* generator ("HTTPError_json_raises").
StreamQuery(proxy, user_id, net) ==
    LET ErrorText(message) ==
            JObject([content |-> JObject([parts |-> JArray(<<JObject([text |-> JStr(message)])>>)])])
        fresh == proxy.session_id = NoSessionId
        session_id == IF fresh THEN "s_1" ELSE proxy.session_id
        Request(url, ok) == [url |-> url, user_id |-> user_id, session_id |-> session_id, ok |-> ok]
        creating == IF fresh THEN <<Request("sessions", net.create # "refused")>> ELSE <<>>
        run == net.run
        events ==
            IF run.kind = "json"
            THEN IF run.value.json = "array" THEN run.value.items
                 ELSE IF run.value.json = "object" THEN <<run.value>>
                 ELSE <<ErrorText("Error: Unexpected non-JSON or non-list response from orchestrator")>>
            ELSE IF run.kind = "not_json"
            THEN <<ErrorText("Error: Failed to decode orchestrator response as JSON.")>>
            ELSE IF run.kind = "ConnectionError"
            THEN <<ErrorText("Error: Could not connect to orchestrator")>>
            ELSE IF run.kind = "Timeout"
            THEN <<ErrorText("Error: Timeout connecting to orchestrator.")>>
            ELSE IF run.kind = "HTTPError_json_raises" THEN <<>>
            ELSE <<ErrorText("Error: Request to orchestrator /run failed")>>
    IN  IF fresh /\ net.create # "created"
        THEN [proxy |-> [session_id |-> session_id], requests |-> creating,
              events |-> <<ErrorText("Error: Failed to establish session")>>, raises |-> FALSE]
        ELSE [proxy |-> [session_id |-> session_id],
              requests |-> Append(creating, Request("run", run.kind \in {"json", "not_json"})),
              events |-> events, raises |-> run.kind = "HTTPError_json_raises"]

\* A loop that yields an error event for every event of the stream.
Consume_YieldsError(events, posting) ==
    [thoughts |-> [i \in DOMAIN events |-> [type |-> "error", data |-> JNull]],
     accumulated |-> <<>>]

\* The loop of call_agent_for_plan and of post_plan_event (posting) over the
\* events of stream_query: the thoughts it yields and the texts it adds to
\* the accumulated text.  An exception in the handling of an event ends the
\* handling of that event with one more thought.  post_plan_event looks
\* for functionCall and functionResponse also in a part that has a text.
\* A content or a text that is the empty string, and parts that are not a
\* list, are not among the events drawn.
Consume(events, posting) ==
    LET Tool(part, key) ==
            LET value == Get(part.fields, key)
            IN  IF ~Truthy(value) THEN [thoughts |-> <<>>, raised |-> FALSE]
                ELSE IF value.json # "object" THEN [thoughts |-> <<>>, raised |-> TRUE]
                ELSE [thoughts |-> <<Thought("Agent tool", key)>>, raised |-> FALSE]
        Tools(part) ==
            LET function_call == Tool(part, "functionCall")
                function_response == Tool(part, "functionResponse")
            IN  IF function_call.raised THEN function_call
                ELSE [thoughts |-> function_call.thoughts \o function_response.thoughts,
                      raised |-> function_response.raised]
        OfPart(part) ==
            IF part.json = "object"
            THEN LET text == Get(part.fields, "text")
                 IN  IF Truthy(text)
                     THEN IF text.json # "string"
                          THEN [thoughts |-> <<Thought("Agent: ", "")>>, texts |-> <<>>, raised |-> TRUE]
                          ELSE IF posting
                          THEN [thoughts |-> <<Thought("Agent: ", text.s)>> \o Tools(part).thoughts,
                                texts |-> <<text.s>>, raised |-> Tools(part).raised]
                          ELSE [thoughts |-> <<Thought("Agent: ", text.s)>>, texts |-> <<text.s>>,
                                raised |-> FALSE]
                     ELSE [thoughts |-> Tools(part).thoughts, texts |-> <<>>,
                           raised |-> Tools(part).raised]
            ELSE IF part.json = "string"
            THEN [thoughts |-> <<Thought("Agent: ", part.s)>>, texts |-> <<part.s>>, raised |-> FALSE]
            ELSE [thoughts |-> <<Thought("Warning: Unrecognized part type", "")>>, texts |-> <<>>,
                  raised |-> FALSE]
        RECURSIVE OfParts(_)
        OfParts(parts) ==
            IF parts = <<>> THEN [thoughts |-> <<>>, texts |-> <<>>]
            ELSE LET first == OfPart(Head(parts))
                     rest == OfParts(Tail(parts))
                 IN  IF first.raised
                     THEN [thoughts |-> Append(first.thoughts,
                                               Thought("Error processing agent event part", "")),
                           texts |-> first.texts]
                     ELSE [thoughts |-> first.thoughts \o rest.thoughts,
                           texts |-> first.texts \o rest.texts]
        OfEvent(event) ==
            IF event.json # "object"
            THEN [thoughts |-> <<Thought("Error processing agent event part", "")>>, texts |-> <<>>]
            ELSE LET content_data == Get(event.fields, "content")
                 IN  IF content_data.json = "object"
                     THEN OfParts(IF "parts" \in DOMAIN content_data.fields
                                  THEN content_data.fields["parts"].items ELSE <<>>)
                     ELSE IF content_data.json = "array" THEN OfParts(content_data.items)
                     ELSE IF content_data.json = "string"
                     THEN OfParts(<<JObject([text |-> content_data])>>)
                     ELSE OfParts(<<>>)
        RECURSIVE OfEvents(_)
        OfEvents(es) ==
            IF es = <<>> THEN [thoughts |-> <<>>, accumulated |-> <<>>]
            ELSE LET first == OfEvent(Head(es))
                     rest == OfEvents(Tail(es))
                 IN  [thoughts |-> first.thoughts \o rest.thoughts,
                      accumulated |-> first.texts \o rest.accumulated]
    IN  OfEvents(events)

\* call_agent_for_plan of the web facade, run to its end on the stream that
\* stream_query gives: the events it yields, whether an exception ends it,
\* whether it came to iterate the stream, and accumulated_json_str after the
\* loop.  ', '.join(value) raises TypeError unless value is a string or a list
\* of strings.
LocalCallAgentForPlan(user_name, planned_date, location_n_perference, selected_friend_names_list, stream) ==
    LET joins ==
            \/ selected_friend_names_list.json = "string"
            \/ /\ selected_friend_names_list.json = "array"
               /\ \A i \in DOMAIN selected_friend_names_list.items : selected_friend_names_list.items[i].json = "string"
        opening == <<Thought("--- IntrovertAlly Agent Call Initiated (Local Orchestrator) ---", ""),
                     Thought("User", ""), Thought("Planned Date", ""),
                     Thought("Location/Preference", "")>>
        sending == <<Thought("Selected Friends", ""), Thought("Initiating plan", ""),
                     Thought("Sending detailed planning prompt to local orchestrator agent", ""),
                     Thought("--- Local Agent Response Stream Starting ---", "")>>
        Outcome(accumulated) ==
            LET first == CHOOSE i \in DOMAIN accumulated :
                             accumulated[i] = Fence /\ \A j \in 1 .. (i - 1) : accumulated[j] # Fence
                rest == SubSeq(accumulated, first + 1, Len(accumulated))
                fences == {i \in DOMAIN rest : rest[i] \in {Fence, FenceEnd}}
                json_block ==
                    IF fences = {} THEN rest
                    ELSE SubSeq(rest, 1, (CHOOSE i \in fences : \A j \in fences : j <= i) - 1)
                texts == IF \E i \in DOMAIN accumulated : accumulated[i] = Fence
                         THEN json_block ELSE accumulated
            IN  IF texts = <<>>
                THEN <<Thought("Local agent did not provide any text content in its response.", ""),
                       [type |-> "error", data |-> ErrorData("Local agent returned no content.", <<>>)]>>
                ELSE IF Len(texts) = 1 /\ texts[1] \in JsonTexts
                THEN <<[type |-> "plan_complete", data |-> JsonLoads(texts[1])]>>
                ELSE <<Thought("Failed to parse the output of the local agent as a valid plan.", ""),
                       Thought("Raw output received", ""),
                       [type |-> "error", data |-> ErrorData("JSON parsing error", texts)]>>
        Streamed(read) ==
            IF stream.raises
            THEN [events |-> opening \o sending \o read.thoughts
                             \o <<Thought("Critical error during local agent stream query", ""),
                                  [type |-> "error",
                                   data |-> ErrorData("Error during local agent interaction",
                                                     read.accumulated)]>>,
                  raised |-> FALSE, streamed |-> TRUE, accumulated |-> read.accumulated]
            ELSE [events |-> opening \o sending \o read.thoughts
                             \o <<Thought("--- End of Local Agent Response Stream ---", "")>>
                             \o Outcome(read.accumulated),
                  raised |-> FALSE, streamed |-> TRUE, accumulated |-> read.accumulated]
    IN  IF ~joins
        THEN [events |-> opening, raised |-> TRUE, streamed |-> FALSE, accumulated |-> <<>>]
        ELSE CHOOSE run \in {Streamed(read) : read \in {Consume(stream.events, FALSE)}} : TRUE

\* post_plan_event of the web facade, run to its end.  Before the stream,
\* confirmed_plan.get raises unless the plan is an object,
\* edited_invite_message[:100] unless the message is a string or a list, and
\* confirmed_plan.get('friends_name_list', []) + [user_name] unless the
\* friends are a list.
LocalPostPlanEvent(user_name, confirmed_plan, edited_invite_message, agent_session_user_id, stream) ==
    LET opening == <<Thought("--- Post Plan Event Agent Call Initiated (Local Orchestrator) ---", ""),
                     Thought("User performing action", "")>>
        received == <<Thought("Received Confirmed Plan (event_name)", ""),
                      Thought("Received Invite Message", ""),
                      Thought("Initiating process to post event and invite", "")>>
        sending == <<Thought("Sending posting instructions to local agent", "")>>
        friends == IF "friends_name_list" \in DOMAIN confirmed_plan.fields
                   THEN confirmed_plan.fields["friends_name_list"] ELSE JArray(<<>>)
        Before(events) == [events |-> events, raised |-> TRUE, streamed |-> FALSE,
                           accumulated |-> <<>>]
        Streamed(read) ==
            IF stream.raises
            THEN [events |-> opening \o received \o sending \o read.thoughts
                             \o <<Thought("Critical error during local agent stream query for posting", ""),
                                  [type |-> "error",
                                   data |-> ErrorData("Error during local agent interaction for posting",
                                                     read.accumulated)]>>,
                  raised |-> FALSE, streamed |-> TRUE, accumulated |-> read.accumulated]
            ELSE [events |-> opening \o received \o sending \o read.thoughts
                             \o <<Thought("--- End of Local Agent Response Stream for Posting ---", ""),
                                  [type |-> "posting_finished",
                                   data |-> JObject([success |-> [json |-> "boolean", b |-> TRUE],
                                                     message |-> JStr("Local agent has finished processing the event and post creation.")])]>>,
                  raised |-> FALSE, streamed |-> TRUE, accumulated |-> read.accumulated]
    IN  IF confirmed_plan.json # "object" THEN Before(opening)
        ELSE IF edited_invite_message.json \notin {"string", "array"}
        THEN Before(Append(opening, Thought("Received Confirmed Plan (event_name)", "")))
        ELSE IF friends.json # "array" THEN Before(opening \o received)
        ELSE CHOOSE run \in {Streamed(read) : read \in {Consume(stream.events, TRUE)}} : TRUE

\* The generators of the facade and of the planning API, each run to its end
\* by its caller before the next is started.  A call of the web facade that
\* comes to iterate stream_query leaves the fields of the proxy as the call
\* set them, and the orchestrator keeps the sessions it has created.
Generated(fn, file, user_id, q, r) ==
    /\ generated' = [fn |-> fn, file |-> file, user_id |-> user_id,
                     requests |-> IF r.streamed THEN q.requests ELSE <<>>,
                     stream |-> [events |-> q.events, raises |-> q.raises], run |-> r]
    /\ local_agent_proxy' = IF r.streamed THEN q.proxy ELSE local_agent_proxy
    /\ created' = IF r.streamed
                  THEN created \cup {<<q.requests[i].user_id, q.requests[i].session_id>> :
                                        i \in {j \in DOMAIN q.requests :
                                                  q.requests[j].url = "sessions" /\ q.requests[j].ok}}
                  ELSE created
    /\ UNCHANGED <<registryVars, sessionVars, httpVars, inserting>>

local_call_agent_for_plan ==
    /\ conn # "absent"
    /\ generated.fn = "none"
    /\ \E user_name \in PersonNames, friends \in {JArray(<<JStr("Bob")>>), JNull}, net \in Networks :
       \E q \in {StreamQuery(local_agent_proxy, user_name, net)} :
       \E r \in {LocalCallAgentForPlan(JStr(user_name), JStr("2025-06-01"), JStr("Rome"), friends, q)} :
           Generated("call_agent_for_plan", "web", user_name, q, r)

local_post_plan_event ==
    /\ conn # "absent"
    /\ generated.fn = "none"
    /\ \E agent_session_user_id \in PersonNames, net \in Networks,
          posting \in {[plan |-> JObject([event_name |-> JStr("Dinner"),
                                          friends_name_list |-> JArray(<<JStr("Bob")>>)]),
                        message |-> JStr("Join us")],
                       [plan |-> JObject(<<>>), message |-> JStr("Join us")],
                       [plan |-> JObject([friends_name_list |-> JStr("Bob")]), message |-> JStr("Join us")],
                       [plan |-> JNull, message |-> JStr("Join us")],
                       [plan |-> JObject(<<>>), message |-> JNumber(1)]} :
       \E q \in {StreamQuery(local_agent_proxy, agent_session_user_id, net)} :
       \E r \in {LocalPostPlanEvent(JStr("Alice"), posting.plan, posting.message,
                                    JStr(agent_session_user_id), q)} :
           Generated("post_plan_event", "web", agent_session_user_id, q, r)

\* call_agent_for_plan of the planning API, which reads the stream of the
\* agent engine.
call_agent_for_plan ==
    /\ agent_engine = "engine"
    /\ generated.fn = "none"
    /\ \E user_name \in PersonNames, friends \in {JArray(<<JStr("Bob")>>), JNull}, stream \in Streams :
       \E r \in {CallAgentForPlan(JStr(user_name), JStr("2025-06-01"), JStr("Rome"), friends, stream)} :
       \E q \in {[requests |-> <<>>, events |-> stream.events, raises |-> stream.raises,
                   proxy |-> local_agent_proxy]} :
           Generated("call_agent_for_plan", "api", user_name, q,
                     [events |-> r.events, raised |-> r.raised, streamed |-> ~r.raised,
                      accumulated |-> IF r.raised THEN <<>> ELSE Accumulated(stream.events)])

\* The caller has taken the last event of the generator.
generator_exhausted ==
    /\ generated.fn # "none"
    /\ generated' = [fn |-> "none"]
    /\ UNCHANGED <<registryVars, sessionVars, httpVars, inserting, local_agent_proxy, created>>

NextFacade ==
    \/ local_call_agent_for_plan
    \/ local_post_plan_event
    \/ call_agent_for_plan
    \/ generator_exhausted

SpecFacade == InitHttp /\ [][NextFacade]_vars

-----------------------------------------------------------------------------
\* Requests served at once.  The development server of the web framework runs
\* every request in a thread of its own; the threads share the module-level
\* connection and, with it, its one open transaction, so that the statements
\* of add_full_event_with_details_db in one request interleave with the
\* run_query calls of other requests.

\* add_full_event_with_details_db is called for a new event with some
\* locations and attendees: its statements are the insert of the event, of
\* each location and its link to the event, and of the attendances.
add_full_event_begin ==
    /\ conn = "open"
    /\ inserting.pc \in {"idle", "returned"}
    /\ \E n \in 1 .. MaxLocations,
          attendee_ids \in {ids \in SeqsUpTo({PersonIdOf(name) : name \in PersonNames},
                                             MaxAttendees) :
                               ids # <<>> /\ \A i, j \in DOMAIN ids : ids[i] = ids[j] => i = j} :
           LET event_id == nextUuid
               ofLocation(i) ==
                   <<{[table |-> "Location", location_id |-> event_id + i]},
                     {[table |-> "EventLocation", event_id |-> event_id,
                       location_id |-> event_id + i]}>>
               RECURSIVE ofLocations(_)
               ofLocations(i) == IF i > n THEN <<>> ELSE ofLocation(i) \o ofLocations(i + 1)
           IN  /\ nextUuid + n <= MaxIds
               /\ nextUuid' = nextUuid + 1 + n
               /\ inserting' =
                      [pc |-> "running", returned |-> FALSE, executed |-> {},
                       statements |->
                           <<{[table |-> "Event", event_id |-> event_id]}>>
                           \o ofLocations(1)
                           \o <<{[table |-> "Attendance", event_id |-> event_id,
                                  person_id |-> attendee_ids[i]] : i \in DOMAIN attendee_ids}>>]
    /\ UNCHANGED <<registryVars, state, pc, pending, prev, calls, last, httpVars,
                   local_agent_proxy, created, generated>>

\* The next statement of the insert in progress, or conn.commit() after the
\* last: it succeeds, or it raises and the except clause rolls back and
\* returns False.
add_full_event_statement ==
    /\ inserting.pc = "running"
    /\ \/ /\ inserting.statements # <<>>
          /\ uncommitted' = uncommitted \cup Head(inserting.statements)
          /\ tables' = tables
          /\ inserting' = [inserting EXCEPT !.statements = Tail(@),
                                            !.executed = @ \cup Head(inserting.statements)]
       \/ /\ inserting.statements = <<>>
          /\ uncommitted' = {}
          /\ tables' = tables \cup uncommitted
          /\ inserting' = [inserting EXCEPT !.pc = "returned", !.returned = TRUE]
       \/ /\ uncommitted' = {}
          /\ tables' = tables
          /\ inserting' = [inserting EXCEPT !.pc = "returned", !.returned = FALSE]
    /\ UNCHANGED <<registryVars, sessionVars, conn, agent_engine, answer,
                   local_agent_proxy, created, generated>>

\* run_query in another request while the insert is in progress: it executes
\* its statement and commits, or the statement raises and it rolls back.
concurrent_run_query ==
    /\ conn = "open"
    /\ inserting.pc = "running"
    /\ uncommitted' = {}
    /\ \/ tables' = tables \cup uncommitted
       \/ tables' = tables
    /\ UNCHANGED <<registryVars, sessionVars, conn, agent_engine, answer, webVars>>

NextTxn ==
    \/ add_full_event_begin
    \/ add_full_event_statement
    \/ concurrent_run_query

SpecTxn == InitHttp /\ [][NextTxn]_vars

-----------------------------------------------------------------------------
\* Properties of send_task and of the session state.

\* A step in which send_task dispatched its request in session s, and one in
\* which it resumed from its await and ended.
Sent(s) == pc[s] = "ready" /\ pc'[s] = "awaiting"
Received(s) == pc[s] = "awaiting" /\ pc'[s] = "ready"

\* A step of before_model_callback in session s.
CalledBack(s) ==
    pc[s] # "awaiting" /\ pc'[s] = "ready" /\ pending' = pending /\ last' = last

Active(st) == "session_active" \in DOMAIN st /\ st["session_active"]

NonTerminal == {SUBMITTED, WORKING, INPUT_REQUIRED}
Terminal == {COMPLETED, CANCELED, FAILED, UNKNOWN}

\* C1: whatever the registry holds, a send_task call that names an agent without
\* a connection ends with the not-found error and changes neither the session
\* state nor the requests in flight, and no request in flight ever names an
\* unregistered agent.
C1_UnknownAgentFailsFirst ==
    [][\A s \in Sessions :
         /\ (/\ last' # last
             /\ last'.session = s
             /\ last'.agent_name \notin DOMAIN remote_agent_connections)
            => /\ last'.kind = "raise"
               /\ last'.error.what = "not found"
               /\ last'.error.agent = last'.agent_name
               /\ last'.request = None
               /\ state' = state
               /\ pending' = pending
               /\ pc' = pc
         /\ Sent(s) => pending'[s].agent_name \in DOMAIN remote_agent_connections
      ]_vars

\* An unknown-agent failure in a session that already tracks another agent and
\* holds a task id.
C1_Witness ==
    /\ last.kind = "raise"
    /\ last.error.what = "not found"
    /\ "task_id" \in DOMAIN state[last.session]
    /\ state[last.session]["agent"] # last.agent_name

\* C2 as stated: after a COMPLETED response session_active is false and task_id
\* is not in the session state, and the send_task that follows in the session
\* does not send the completed task's id.
C2_CompletedLeavesNoTaskId ==
    [][\A s \in Sessions :
         /\ (Received(s) /\ prev'[s].answer = COMPLETED)
            => /\ state'[s]["session_active"] = FALSE
               /\ "task_id" \notin DOMAIN state'[s]
         /\ (Sent(s) /\ prev[s] # None /\ prev[s].answer = COMPLETED)
            => pending'[s].id # prev[s].id
      ]_vars

\* C2 as amended: after a COMPLETED response session_active is false and task_id
\* holds the id that call sent, and the send_task that follows in the session
\* sends that id again.
C2_CompletedKeepsTaskId ==
    [][\A s \in Sessions :
         /\ (Received(s) /\ prev'[s].answer = COMPLETED)
            => /\ state'[s]["session_active"] = FALSE
               /\ "task_id" \in DOMAIN state'[s]
               /\ state'[s]["task_id"] = prev'[s].id
         /\ (Sent(s) /\ prev[s] # None /\ prev[s].answer = COMPLETED)
            => pending'[s].id = prev[s].id
      ]_vars

\* A request in flight that follows a COMPLETED response and carries its task id.
C2_Witness ==
    \E s \in Sessions :
        /\ pc[s] = "awaiting"
        /\ prev[s] # None
        /\ prev[s].answer = COMPLETED
        /\ pending[s].id = prev[s].id
        /\ ~state[s]["session_active"]

\* C3: when the response state is INPUT_REQUIRED, send_task returns a list that
\* holds the request for more input naming the agent, and session_active is
\* true afterwards.
C3_InputRequiredAsksForInput ==
    [][\A s \in Sessions :
         (Received(s) /\ prev'[s].answer = INPUT_REQUIRED)
         => /\ last'.kind = "return"
            /\ \E i \in DOMAIN last'.response :
                   last'.response[i] = Str(MoreInputText, last'.agent_name)
            /\ state'[s]["session_active"] = TRUE
      ]_vars

\* An INPUT_REQUIRED response with a status text and another part: the result
\* holds the request for more input, the text and the converted parts.
C3_Witness ==
    /\ last.kind = "return"
    /\ last.task # None
    /\ last.task.status # None
    /\ last.task.status.state = INPUT_REQUIRED
    /\ HasText(last.task.status.message)
    /\ Len(last.response) >= 4
    /\ state[last.session]["session_active"]

\* C4: when the response state is CANCELED or FAILED, send_task raises the
\* error of that state and returns no list; the reason in the error is the text
\* of the first text part of the status message, or "Unknown." when there is no
\* status message or it holds no text part.
C4_CanceledOrFailedRaises ==
    [][\A s \in Sessions :
         (Received(s) /\ prev'[s].answer \in {CANCELED, FAILED})
         => LET message == last'.task.status.message
                parts == IF message = None THEN <<>> ELSE message.parts
                texts == {i \in DOMAIN parts : parts[i].type = "text"}
            IN  /\ last'.kind = "raise"
                /\ last'.response = <<>>
                /\ last'.error.what =
                       (IF prev'[s].answer = CANCELED THEN "was cancelled" ELSE "failed")
                /\ last'.error.agent = last'.agent_name
                /\ texts = {} => last'.error.reason = UnknownReason
                /\ \A i \in texts :
                       (\A j \in texts : i <= j) => last'.error.reason = parts[i].text
      ]_vars

\* A cancelled task whose status message holds two different texts.
C4_Witness ==
    /\ last.kind = "raise"
    /\ last.error.what = "was cancelled"
    /\ last.task.status.message # None
    /\ Len(last.task.status.message.parts) = 2
    /\ last.task.status.message.parts[1].type = "text"
    /\ last.task.status.message.parts[2].type = "text"
    /\ last.task.status.message.parts[1].text # last.task.status.message.parts[2].text
    /\ last.error.reason = last.task.status.message.parts[1].text

\* C5: after every send_task call that received a task with a status, the calls
\* that raise included, session_active is true when the state is SUBMITTED,
\* WORKING or INPUT_REQUIRED and false when it is COMPLETED, CANCELED, FAILED or
\* UNKNOWN.
C5_SessionActiveFollowsState ==
    [][\A s \in Sessions :
         (Received(s) /\ prev'[s].answer \in TaskStates)
         => /\ "session_active" \in DOMAIN state'[s]
            /\ prev'[s].answer \in {SUBMITTED, WORKING, INPUT_REQUIRED}
               => state'[s]["session_active"] = TRUE
            /\ prev'[s].answer \in {COMPLETED, CANCELED, FAILED, UNKNOWN}
               => state'[s]["session_active"] = FALSE
      ]_vars

\* A call that raised for a FAILED task and left the session inactive.
C5_Witness ==
    /\ last.kind = "raise"
    /\ last.error.what = "failed"
    /\ state[last.session]["session_active"] = FALSE
    /\ pc[last.session] = "ready"

\* C6: while the previous response of the conversation was SUBMITTED, WORKING or
\* INPUT_REQUIRED, the next send_task sends the task id and the session id of the
\* previous request.
C6_FollowUpKeepsIds ==
    [][\A s \in Sessions :
         (Sent(s) /\ prev[s] # None /\ prev[s].answer \in NonTerminal)
         => /\ pending'[s].id = prev[s].id
            /\ pending'[s].sessionId = prev[s].sessionId
      ]_vars

\* C7: when the remote call returns no task, or a task without a status,
\* send_task returns a list that holds the diagnostic naming the agent, and
\* session_active is false afterwards.
C7_InvalidTaskIsSoftFailure ==
    [][\A s \in Sessions :
         (Received(s) /\ prev'[s].answer = "no status")
         => /\ last'.task = None \/ last'.task.status = None
            /\ last'.kind = "return"
            /\ \E i \in DOMAIN last'.response :
                   last'.response[i] = Str(InvalidTaskText, last'.agent_name)
            /\ state'[s]["session_active"] = FALSE
      ]_vars

\* A task without a status that carries an artifact: the call returned the
\* diagnostic and the converted part.
C7_Witness ==
    /\ last.kind = "return"
    /\ last.task # None
    /\ last.task.status = None
    /\ last.task.artifacts # <<>>
    /\ Len(last.response) >= 2
    /\ state[last.session]["session_active"] = FALSE

\* C8 as stated: session_active becomes true only when a response with a
\* non-terminal state is received or when send_task dispatches a task, and the
\* dispatch that follows a terminal response leaves it true.
C8_ActiveOnlyByTask ==
    [][\A s \in Sessions :
         /\ (~Active(state[s]) /\ Active(state'[s]))
            => \/ Received(s) /\ prev'[s].answer \in NonTerminal
               \/ Sent(s)
         /\ (Sent(s) /\ prev[s] # None /\ prev[s].answer \in Terminal)
            => Active(state'[s])
      ]_vars

\* C8 as amended: session_active is not set before the first
\* before_model_callback, which sets it to true; later it becomes true only in
\* before_model_callback or when a response with a non-terminal state is
\* received, every before_model_callback leaves it true, and send_task does not
\* change it when it dispatches a task.
C8_ActiveByCallbackOrResponse ==
    [][\A s \in Sessions :
         /\ pc[s] = "new" => "session_active" \notin DOMAIN state[s]
         /\ (~Active(state[s]) /\ Active(state'[s]))
            => \/ Received(s) /\ prev'[s].answer \in NonTerminal
               \/ CalledBack(s)
         /\ (CalledBack(s) /\ (pc[s] = "new" \/ state'[s] # state[s]))
            => Active(state'[s])
         /\ Sent(s)
            => /\ Active(state'[s]) = Active(state[s])
               /\ ("session_active" \in DOMAIN state'[s]) = ("session_active" \in DOMAIN state[s])
      ]_vars

\* A task dispatched after a terminal response while session_active is false.
C8_Witness ==
    \E s \in Sessions :
        /\ pc[s] = "awaiting"
        /\ prev[s] # None
        /\ prev[s].answer \in Terminal
        /\ state[s]["session_active"] = FALSE

\* The place of the first part of artifact k in the parts of a task that come
\* after the n parts of its status message.
RECURSIVE C9_Offset(_, _, _)
C9_Offset(artifacts, k, n) ==
    IF k = 1 THEN n ELSE C9_Offset(artifacts, k - 1, n) + Len(artifacts[k - 1].parts)

\* C9: for a response with state SUBMITTED, WORKING, COMPLETED or UNKNOWN the
\* result of send_task is the converted parts of the status message, if there is
\* one, followed by the converted parts of every artifact in artifact order, and
\* nothing else; a COMPLETED response without status message whose one artifact
\* holds the text "Done" gives the list of "Done" alone.
C9_ResultIsFlattenedParts ==
    [][\A s \in Sessions :
         (Received(s) /\ prev'[s].answer \in {SUBMITTED, WORKING, COMPLETED, UNKNOWN})
         => LET task == last'.task
                message == task.status.message
                parts == IF message = None THEN <<>> ELSE message.parts
                artifacts == task.artifacts
                response == last'.response
            IN  /\ last'.kind = "return"
                /\ Len(response) = C9_Offset(artifacts, Len(artifacts) + 1, Len(parts))
                /\ \A i \in DOMAIN parts : response[i] = ConvertPart(parts[i]).value
                /\ \A k \in DOMAIN artifacts :
                       \A j \in DOMAIN artifacts[k].parts :
                           response[C9_Offset(artifacts, k, Len(parts)) + j] =
                               ConvertPart(artifacts[k].parts[j]).value
                /\ (/\ task.status.state = COMPLETED
                    /\ message = None
                    /\ artifacts = <<[parts |-> <<TextPart("Done")>>]>>)
                   => response = <<Str("text", "Done")>>
      ]_vars

\* A COMPLETED response with a part in its status message and two artifacts of
\* different parts.
C9_Witness ==
    /\ last.kind = "return"
    /\ last.task # None
    /\ last.task.status # None
    /\ last.task.status.state = COMPLETED
    /\ Len(last.task.artifacts) = 2
    /\ last.task.artifacts[1] # last.task.artifacts[2]
    /\ Len(last.response) = 2

\* C10: every call of convert_part returns a value and raises nothing: the text
\* of a text part, the data of a data part, the artifact reference of a file
\* part whose bytes decode, the error string of a file part whose bytes do not,
\* the placeholder of a file part without bytes, and for any other type the
\* placeholder naming the type.
C10_ConvertPartIsTotal ==
    last.kind # "none"
    => /\ last.error # None => last.error.what # "convert_part"
       /\ \A i \in DOMAIN last.converted :
              LET c == last.converted[i]
                  part == c.part
              IN  /\ ~c.raised
                  /\ c.value # None
                  /\ part.type = "text" => c.value = Str("text", part.text)
                  /\ part.type = "data" => c.value = Str("data", part.data)
                  /\ part.type = "file"
                     => /\ part.file.bytes = "aGk=" => c.value = ArtifactRef(part.file.name)
                        /\ part.file.bytes = "aGk"
                           => c.value = Str(FileErrorText, part.file.name)
                        /\ part.file.bytes = NoBytes
                           => c.value = Str(FileNoContentText, part.file.name)
                  /\ part.type \notin {"text", "data", "file"}
                     => c.value = Str(UnknownPartText, part.type)

\* A call that converted a file part whose bytes do not decode and a part of an
\* unknown type.
C10_Witness ==
    /\ last.kind = "return"
    /\ \E i, j \in DOMAIN last.converted :
           /\ last.converted[i].part = FilePart("f1", "aGk")
           /\ last.converted[j].part = OtherPart("video")

\* C18: when the response state is WORKING, COMPLETED or SUBMITTED, task_id in
\* the session state is afterwards the task id the call sent, and the next
\* send_task of the session sends that id.
C18_StoredTaskIdIsSentAgain ==
    [][\A s \in Sessions :
         /\ (Received(s) /\ prev'[s].answer \in {WORKING, COMPLETED, SUBMITTED})
            => /\ "task_id" \in DOMAIN state'[s]
               /\ state'[s]["task_id"] = pending[s].id
         /\ (Sent(s) /\ prev[s] # None /\ prev[s].answer \in {WORKING, COMPLETED, SUBMITTED})
            => /\ pending'[s].id = prev[s].id
               /\ state'[s]["task_id"] = prev[s].id
      ]_vars

\* After a WORKING response the model was called again and sent a task to
\* another agent: the request carries the id stored by the earlier call.
C18_Witness ==
    \E s \in Sessions :
        /\ pc[s] = "awaiting"
        /\ prev[s] # None
        /\ prev[s].answer = WORKING
        /\ pending[s].id = prev[s].id
        /\ last.kind = "return"
        /\ last.agent_name # pending[s].agent_name

\* C19: after a send_task call that no other call of the session overlapped,
\* agent is the agent of that call, session_active is what the response of
\* that call makes it, and task_id, when set, is the id that call sent.  (That
\* calls which overlap at the await leave agent from one call and
\* session_active and task_id from the response of the other is the state
\* C19_Witness.)
C19_SerializedCallOwnsState ==
    [][(/\ last' # last
        /\ last'.request # None
        /\ last'.request.alone)
       => LET st == state'[last'.session]
              task == last'.task
              answered == task # None /\ task.status # None
          IN  /\ st["agent"] = last'.request.agent_name
              /\ st["session_active"] =
                     (answered /\ task.status.state \in {SUBMITTED, WORKING, INPUT_REQUIRED})
              /\ "task_id" \in DOMAIN st => st["task_id"] = last'.request.id
              /\ (answered /\ task.status.state \in {SUBMITTED, WORKING, COMPLETED, UNKNOWN})
                 => "task_id" \in DOMAIN st
      ]_vars

\* Two calls overlapped: the one to the planner began first and ended first,
\* with a WORKING response, while the one to the social agent is in flight.
\* agent was written by the call in flight, session_active and task_id from
\* the response of the call that ended.
C19_Witness ==
    /\ last.kind = "return"
    /\ last.request # None
    /\ ~last.request.alone
    /\ last.request.agent_name = "Planner Agent"
    /\ last.task # None
    /\ last.task.status # None
    /\ last.task.status.state = WORKING
    /\ \E c \in Coroutines :
           /\ calls[c] # None
           /\ calls[c].agent_name = "Social Agent"
           /\ calls[c].id # last.request.id
    /\ state["s1"]["agent"] = "Social Agent"
    /\ state["s1"]["session_active"] = TRUE
    /\ state["s1"]["task_id"] = last.request.id

\* The parts of a task in its status message and in its artifacts.
RECURSIVE C20_ArtifactParts(_)
C20_ArtifactParts(artifacts) ==
    IF artifacts = <<>> THEN <<>>
    ELSE Head(artifacts).parts \o C20_ArtifactParts(Tail(artifacts))

C20_PartsOf(task) ==
    IF task = None THEN <<>>
    ELSE (IF task.status # None /\ task.status.message # None
          THEN task.status.message.parts ELSE <<>>)
         \o C20_ArtifactParts(task.artifacts)

C21_Stored == SelectSeq(last.converted, LAMBDA c : c.part.type = "file" /\ c.part.file.bytes = "aGk=")

C26_TaskIdIsNeverReplaced ==
    [][\A s \in Sessions :
         "task_id" \in DOMAIN state[s]
         => /\ "task_id" \in DOMAIN state'[s]
            /\ state'[s]["task_id"] = state[s]["task_id"]
            /\ Sent(s) => pending'[s].id = state[s]["task_id"]
      ]_vars

\* A request to another agent that carries the stored task id after the
\* previous call of the session ended in the soft failure.
C26_Witness ==
    \E s \in Sessions :
        /\ pc[s] = "awaiting"
        /\ prev[s] # None
        /\ prev[s].answer = "no status"
        /\ "task_id" \in DOMAIN state[s]
        /\ pending[s].id = state[s]["task_id"]
        /\ pending[s].id = prev[s].id
        /\ last.agent_name # pending[s].agent_name

\* C27: before_model_callback leaves an active session untouched; on a new or
\* inactive session it sets session_active to true and generates a session_id
\* only when none is stored, changing nothing else; and no step of
\* before_model_callback or send_task changes a session_id that is set.
C27_SessionIdIsSetOnce ==
    [][\A s \in Sessions :
         /\ CalledBack(s)
            => IF Active(state[s]) THEN state'[s] = state[s]
               ELSE /\ state'[s]["session_active"] = TRUE
                    /\ DOMAIN state'[s] = DOMAIN state[s] \cup {"session_active", "session_id"}
                    /\ \A k \in DOMAIN state[s] \ {"session_active"} :
                           state'[s][k] = state[s][k]
                    /\ "session_id" \notin DOMAIN state[s]
                       => /\ state'[s]["session_id"] = nextUuid
                          /\ nextUuid' = nextUuid + 1
                    /\ "session_id" \in DOMAIN state[s] => nextUuid' = nextUuid
         /\ "session_id" \in DOMAIN state[s]
            => /\ "session_id" \in DOMAIN state'[s]
               /\ state'[s]["session_id"] = state[s]["session_id"]
         /\ Sent(s) => pending'[s].sessionId = state[s]["session_id"]
      ]_vars

\* A session that a COMPLETED response left inactive was activated again by
\* before_model_callback, with the session_id its request carried.
C27_Witness ==
    \E s \in Sessions :
        /\ pc[s] = "ready"
        /\ prev[s] # None
        /\ prev[s].answer = COMPLETED
        /\ state[s]["session_active"] = TRUE
        /\ state[s]["session_id"] = prev[s].sessionId

\* C28: a send_task call made for one session (its dispatch, its end, or its
\* failure on the name check) leaves the state dict and the request in flight
\* of every other session as they were and changes nothing of the registry,
\* for every response; and the ids of its request are not those stored in
\* another session.
C28_SendTaskTouchesOneSession ==
    [][\A s \in Sessions :
         (Sent(s) \/ Received(s) \/ (last' # last /\ last'.session = s))
         => /\ \A t \in Sessions \ {s} :
                   /\ state'[t] = state[t]
                   /\ pending'[t] = pending[t]
                   /\ pc'[t] = pc[t]
                   /\ (Sent(s) /\ "task_id" \in DOMAIN state[t])
                      => pending'[s].id # state[t]["task_id"]
                   /\ (Sent(s) /\ "session_id" \in DOMAIN state[t])
                      => pending'[s].sessionId # state[t]["session_id"]
            /\ UNCHANGED registryVars
      ]_vars

\* A call of one session ended with a COMPLETED response while the other
\* session, which holds the task_id of its own ended call, is active.
C28_Witness ==
    \E s, t \in Sessions :
        /\ s # t
        /\ last.kind = "return"
        /\ last.session = s
        /\ prev[s] # None /\ prev[s].answer = COMPLETED
        /\ prev[t] # None /\ prev[t].answer = WORKING
        /\ state[t]["session_active"] = TRUE
        /\ state[s]["session_active"] = FALSE
        /\ state[t]["task_id"] # state[s]["task_id"]

-----------------------------------------------------------------------------
\* Properties of the registry.

\* HostAgent.__init__ has returned and the registry is as it left it.
Constructed == phase = "serving" /\ listed.by = "none"

\* The turns of the loop whose fetch succeeded.
Fetched == {i \in DOMAIN tried : tried[i].fetched}

\* What every construction keeps, whatever the cards: it does not fail, it tries
\* the addresses of the list in list order, each place of the list once, and a
\* failed fetch changes nothing in the registry.
C11_TriesEveryAddress ==
    /\ phase # "failed"
    /\ Len(tried) <= Len(addresses)
    /\ \A i \in DOMAIN tried : tried[i].address = addresses[i]
    /\ phase = "serving" => Len(tried) = Len(addresses)
    /\ (phase = "resolving" /\ Fetched = {}) => DOMAIN cards = {}

\* C11 as stated: the construction never fails, each address is tried once in
\* list order, and afterwards the registry holds exactly the cards of the
\* addresses whose fetch succeeded.
C11_HoldsEveryFetchedCard ==
    /\ C11_TriesEveryAddress
    /\ Constructed
       => {cards[n] : n \in DOMAIN cards} = {CardAt(tried[i].address) : i \in Fetched}

\* C11 as amended: the construction never fails, each address is tried once in
\* list order, and afterwards the registry holds, under every name that a
\* fetched card bears, the card of the last address of the list whose fetch gave
\* a card of that name, with the connection made from it, and nothing else.
C11_HoldsLastFetchedCardOfName ==
    /\ C11_TriesEveryAddress
    /\ Constructed
       => /\ DOMAIN cards = {CardAt(tried[i].address).name : i \in Fetched}
          /\ DOMAIN remote_agent_connections = DOMAIN cards
          /\ \A i \in Fetched :
                 LET card == CardAt(tried[i].address)
                 IN  (\A j \in Fetched : j > i => CardAt(tried[j].address).name # card.name)
                     => /\ cards[card.name] = card
                        /\ remote_agent_connections[card.name].card = card

\* A construction over three addresses: the first and the last serve cards of
\* one name, the fetch of the second failed.
C11_Witness ==
    /\ Constructed
    /\ Len(tried) = 3
    /\ tried[1].fetched /\ ~tried[2].fetched /\ tried[3].fetched
    /\ tried[1].address # tried[3].address
    /\ CardAt(tried[1].address).name = CardAt(tried[3].address).name
    /\ Cardinality(DOMAIN cards) = 1

\* C12: what list_remote_agents returns holds one entry for every registered
\* agent, its name and its description, and nothing else (the empty list when
\* the registry is empty), after the construction and after any
\* register_agent_card calls; and the call changes nothing of the registry.
C12_ListsEveryAgentOnce ==
    [][/\ listed'.by # "none"
          => /\ \A n \in DOMAIN cards' :
                    Cardinality({i \in DOMAIN listed'.returned :
                                    listed'.returned[i].name = n}) = 1
             /\ \A i \in DOMAIN listed'.returned :
                    LET entry == listed'.returned[i]
                    IN  /\ entry.name \in DOMAIN cards'
                        /\ DOMAIN entry = {"name", "description"}
                        /\ entry.description = cards'[entry.name].description
             /\ DOMAIN cards' = {} => listed'.returned = <<>>
       /\ listed'.by = "tool"
          => UNCHANGED <<addresses, tried, phase, cards, remote_agent_connections,
                         key_order, agents, sessionVars, httpVars>>
      ]_vars

\* The model lists three agents, one of them under a card that replaced
\* another, of a registry whose construction resolved no address.
C12_Witness ==
    /\ listed.by = "tool"
    /\ Len(listed.returned) = 3
    /\ Len(addresses) >= 1
    /\ Fetched = {}
    /\ \E i \in DOMAIN listed.returned :
           listed.returned[i] = [name |-> "Planner Agent", description |-> "plans (mirror)"]

\* C13: in every state of the registry, during the construction and after any
\* register_agent_card calls, the names that have a connection are the names
\* that have a card, and the connection of a name is the one made from the card
\* now stored under it, which bears that name.
C13_OneConnectionPerCard ==
    /\ DOMAIN remote_agent_connections = DOMAIN cards
    /\ \A n \in DOMAIN cards :
           /\ cards[n].name = n
           /\ remote_agent_connections[n].card = cards[n]
    /\ Len(key_order) = Cardinality(DOMAIN cards)
    /\ {key_order[i] : i \in DOMAIN key_order} = DOMAIN cards

\* During the construction, the card of a name was replaced by the card of a
\* later address, and the connection of the name is made from the later card.
C13_Witness ==
    /\ phase = "resolving"
    /\ Len(tried) = 2
    /\ tried[1] = [address |-> "http://planner", fetched |-> TRUE]
    /\ tried[2] = [address |-> "http://mirror", fetched |-> TRUE]
    /\ remote_agent_connections["Planner Agent"].card = CardAt("http://mirror")

\* C14 as stated: a card stored under a name, and its connection, are never
\* replaced nor removed.
C14_CardsNeverReplaced ==
    [][\A n \in DOMAIN cards :
         /\ n \in DOMAIN cards'
         /\ n \in DOMAIN remote_agent_connections'
         /\ cards'[n] = cards[n]
         /\ remote_agent_connections'[n] = remote_agent_connections[n]
      ]_vars

\* C14 as amended: a name that has a card and a connection keeps having them;
\* the card and the connection of a name are replaced only together, by a card
\* of that name and the connection made from it, when a later address resolves
\* to such a card or register_agent_card is called with one; the cards and
\* connections of the other names are not changed by that.
C14_CardsReplacedOnlyByName ==
    [][\A n \in DOMAIN cards :
         /\ n \in DOMAIN cards'
         /\ n \in DOMAIN remote_agent_connections'
         /\ (cards'[n] # cards[n] \/ remote_agent_connections'[n] # remote_agent_connections[n])
            => /\ cards'[n] # cards[n]
               /\ cards'[n].name = n
               /\ remote_agent_connections'[n].card = cards'[n]
               /\ \A m \in DOMAIN cards \ {n} :
                      /\ cards'[m] = cards[m]
                      /\ remote_agent_connections'[m] = remote_agent_connections[m]
               /\ phase = "resolving"
                  => /\ tried' = Append(tried, [address |-> addresses[Len(tried) + 1],
                                                fetched |-> TRUE])
                     /\ cards'[n] = CardAt(addresses[Len(tried) + 1])
               /\ phase = "serving" => listed'.by = "register_agent_card"
      ]_vars

\* After the construction fetched the planner's card and the social agent's,
\* register_agent_card replaced the planner's card by its mirror's.
C14_Witness ==
    /\ phase = "serving"
    /\ Len(tried) = 2
    /\ tried[1] = [address |-> "http://planner", fetched |-> TRUE]
    /\ tried[2] = [address |-> "http://social", fetched |-> TRUE]
    /\ cards["Planner Agent"] = CardAt("http://mirror")
    /\ remote_agent_connections["Social Agent"].card = CardAt("http://social")

-----------------------------------------------------------------------------
\* Properties of the HTTP entry points (SpecHttp).

\* A request has been answered, and its response not yet sent.
Answered_By(entries) == answer.entry \in entries

\* C15: an SQL failure raised in run_query, add_post_db or
\* add_full_event_with_details_db does not leave the helper, the transaction is
\* rolled back when the helper returns, and the request is answered with an
\* error (a flashed message or a 5xx status), never with a success nor with a
\* 'not found' answer.
C15_SqlFailureIsAnsweredAsError ==
    \A i \in DOMAIN answer.trace :
        answer.trace[i].failed =>
            /\ answer.trace[i].raised = "nothing"
            /\ ~answer.trace[i].pending
            /\ answer.flashes # <<>> \/ answer.status >= 500
            /\ answer.status \notin {200, 201, 404}

\* C16 as stated: every response of api_handler, of POST /api/posts and of
\* POST /api/events, whatever the method, path and payload of the request,
\* has a status among 200, 201, 400, 404, 500 and 503.
C16_StatusIsOneOfSix ==
    Answered_By({"api_handler", "add_post_api", "add_event_api"})
        => answer.status \in {200, 201, 400, 404, 500, 503}

\* C16 as amended: every such response has a status among 200, 201, 204, 400,
\* 404, 405, 415, 500 and 503.
C16_StatusIsOneOfNine ==
    Answered_By({"api_handler", "add_post_api", "add_event_api"})
        => answer.status \in {200, 201, 204, 400, 404, 405, 415, 500, 503}

\* api_handler answered an OPTIONS request to /plan with 204 and the CORS
\* headers.
C16_Witness ==
    /\ answer.entry = "api_handler"
    /\ answer.method = "OPTIONS"
    /\ answer.path = "/plan"
    /\ answer.status = 204
    /\ answer.cors

\* C17: handle_plan_request and handle_post_request answer by the first
\* terminal event of the generator they drive: every event before it is a
\* thought, plan_complete or posting_finished gives a 200 response whose body
\* is the data of the event, whatever the data, and error gives a 500 response
\* with the data of the event as its details.
C17_AnswersByFirstTerminalEvent ==
    (answer.entry = "api_handler" /\ answer.handled.seen # <<>>) =>
        LET seen == answer.handled.seen
            terminal == seen[Len(seen)]
        IN  /\ \A i \in 1 .. (Len(seen) - 1) : seen[i].type = "thought"
            /\ terminal.type \in {"plan_complete", "posting_finished", "error"}
            /\ terminal.type \in {"plan_complete", "posting_finished"} =>
                   /\ answer.handled.status = 200
                   /\ answer.handled.body = terminal.data
            /\ terminal.type = "error" =>
                   /\ answer.handled.status = 500
                   /\ "details" \in DOMAIN answer.handled.body
                   /\ answer.handled.body.details = terminal.data

\* C24: GET /person/<person_id> answers 404 when no Person row has that id,
\* and GET /event/<event_id> answers 404 when no Event row has that id (the
\* database being connected and no statement of the request failing).
C24_UnknownIdIsNotFound ==
    (/\ answer.entry \in {"person_profile", "event_detail_page"}
     /\ ~answer.body.exists
     /\ answer.status # 503
     /\ \A i \in DOMAIN answer.trace : ~answer.trace[i].failed)
    => answer.status = 404

\* The rows that a request added to the tables.
C25_Added == tables' \ tables

C22_EventInsertIsAllOrNothing ==
    inserting.pc = "returned"
    => IF inserting.returned THEN inserting.executed \subseteq tables
       ELSE inserting.executed \cap tables = {}

\* C23: stream_query sends a /run request for a user only with a session id
\* whose creation request succeeded for that user, over any sequence of calls
\* on the shared proxy; a call in which the creation of the session fails
\* yields one error event and sends no /run request.
C23_RunOnlyInCreatedSession ==
    generated.fn # "none" /\ generated.file = "web"
    => LET requests == generated.requests
           failed == \E i \in DOMAIN requests : requests[i].url = "sessions" /\ ~requests[i].ok
       IN  /\ \A i \in DOMAIN requests :
                  requests[i].url = "run"
                  => <<requests[i].user_id, requests[i].session_id>> \in created
           /\ failed => /\ Len(generated.stream.events) = 1
                        /\ \A i \in DOMAIN requests : requests[i].url # "run"

\* The text accumulated by the run of call_agent_for_plan in generated, after
\* taking the content of the json fence when there is one.
C29_Texts ==
    LET accumulated == generated.run.accumulated
        opened == {i \in DOMAIN accumulated : accumulated[i] = Fence}
        first == CHOOSE i \in opened : \A j \in opened : i <= j
        closed == {i \in DOMAIN accumulated : i > first /\ accumulated[i] \in {Fence, FenceEnd}}
        closing == IF closed = {} THEN Len(accumulated) + 1
                   ELSE CHOOSE i \in closed : \A j \in closed : j <= i
    IN  IF opened = {} THEN accumulated ELSE SubSeq(accumulated, first + 1, closing - 1)

\* C29 as stated: every complete run of call_agent_for_plan (web facade and
\* planning API) yields thoughts and then exactly one terminal event,
\* plan_complete or error, and the terminal event is plan_complete exactly
\* when the accumulated text is non-empty and parses as JSON.
C29_PlanCompleteIffTextParses ==
    generated.fn = "call_agent_for_plan" /\ ~generated.run.raised
    => LET events == generated.run.events
           n == Len(events)
       IN  /\ n > 0
           /\ events[n].type \in {"plan_complete", "error"}
           /\ \A i \in 1 .. (n - 1) : events[i].type = "thought"
           /\ events[n].type = "plan_complete"
              <=> (C29_Texts # <<>> /\ Len(C29_Texts) = 1 /\ C29_Texts[1] \in JsonTexts)

\* C29, amended: the same, but the terminal event is plan_complete exactly
\* when iterating the stream did not raise and the accumulated text is
\* non-empty and parses as JSON; when iterating the stream raises the
\* terminal event is error, whatever text was accumulated.
C29_PlanCompleteIffStreamEndsAndTextParses ==
    generated.fn = "call_agent_for_plan" /\ ~generated.run.raised
    => LET events == generated.run.events
           n == Len(events)
       IN  /\ n > 0
           /\ events[n].type \in {"plan_complete", "error"}
           /\ \A i \in 1 .. (n - 1) : events[i].type = "thought"
           /\ events[n].type = "plan_complete"
              <=> /\ ~generated.stream.raises
                  /\ C29_Texts # <<>> /\ Len(C29_Texts) = 1 /\ C29_Texts[1] \in JsonTexts
           /\ events[n].type = "plan_complete" => events[n].data = JsonLoads(C29_Texts[1])

\* A run of the web facade has ended with plan_complete on a plan that the
\* agent sent inside a fence after some other text.
C29_Witness ==
    /\ generated.fn = "call_agent_for_plan" /\ generated.file = "web"
    /\ generated.run.events[Len(generated.run.events)].type = "plan_complete"
    /\ Len(generated.run.accumulated) > 3
    /\ generated.run.accumulated[1] = "Sure"

\* C30: a run of post_plan_event of the web facade that iterates stream_query
\* ends with posting_finished (success true) when iterating the stream does
\* not raise, whatever the proxy reported as error-text events, and with an
\* error event when it raises; no run yields an error event otherwise.
C30_PostingFinishedUnlessStreamRaises ==
    generated.fn = "post_plan_event"
    => LET events == generated.run.events
           n == Len(events)
           raises == generated.run.streamed /\ generated.stream.raises
       IN  /\ \A i \in 1 .. n : events[i].type = "error" => raises /\ i = n
           /\ \A i \in 1 .. (n - 1) : events[i].type = "thought"
           /\ generated.run.streamed
              => /\ ~generated.run.raised
                 /\ raises => events[n].type = "error"
                 /\ ~raises => /\ events[n].type = "posting_finished"
                               /\ events[n].data.fields.success.b
           /\ ~generated.run.streamed
              => generated.run.raised /\ events[n].type = "thought"

\* post_plan_event has ended with posting_finished after the proxy reported
\* that it could not connect to the orchestrator.
C30_Witness ==
    /\ generated.fn = "post_plan_event"
    /\ generated.run.events[Len(generated.run.events)].type = "posting_finished"
    /\ \E i \in DOMAIN generated.run.events :
           generated.run.events[i] = Thought("Agent: ", "Error: Could not connect to orchestrator")
    /\ \A i \in DOMAIN generated.requests : ~generated.requests[i].ok

====
